---- MODULE Spec2Model ----
(***************************************************************************)
(* CPC sketch (cpc_sketch_impl.hpp) as a state machine.                    *)
(*                                                                         *)
(* Representation.  TLC integers are 32 bits wide, so every machine word   *)
(* of the program is represented by the set of the positions of its 1      *)
(* bits: a uint64_t is a subset of 0..63, a 32-bit int a subset of 0..31,  *)
(* a window byte a subset of 0..7.  AND is \cap, OR is \cup, XOR is the    *)
(* symmetric difference, popcount is Cardinality.  A row_col code          *)
(* (row << 6) | col is the integer 64 * row + col.                         *)
(*                                                                         *)
(* The double kxp = whole + SUM_e frac[e] * 2^-e is represented exactly by *)
(* the record [whole, frac] with frac \in [1..64 -> Int].                  *)
(* hip_est_accum, a sum of terms k / kxp, is represented by the number of  *)
(* its terms and the denominator of the last term.                         *)
(***************************************************************************)
EXTENDS Integers, Sequences, FiniteSets, TLC

VARIABLES sketch, sketch2, held, fed, pos, build, stream, ret, origin

vars == <<sketch, sketch2, held, fed, pos, build, stream, ret, origin>>

(***************************************************************************)
(* Bounds of the model                                                     *)
(***************************************************************************)
\* number of codes of the rich stream
MaxFill == 100
\* number of codes of the lean stream
MaxFillDeep == 560
\* the same for the specifications that run a second sketch beside the first
MaxFillPair == 58
\* the same for the specification with serialization round trips
MaxFillWire == 58
\* the lg_k arguments of the constructor are 0..MaxLgKArg
MaxLgKArg == 29
\* the kappa arguments of the bounds are 0..MaxKappa
MaxKappa == 5
\* the header_size_bytes arguments of serialize are 0..MaxHeader
MaxHeader == 1
\* the num_coupons arguments of get_preamble_ints are 0..MaxCouponsArg
MaxCouponsArg == 12
\* the number of value patterns the inputs of the bit-packing tests are made of
MaxPatterns == 4

(***************************************************************************)
(* Program constants                                                       *)
(***************************************************************************)
CPC_MIN_LG_K == 4
CPC_MAX_LG_K == 26
\* opaque byte values: the code compares them for equality only
SERIAL_VERSION == "SERIAL_VERSION"
FAMILY == "FAMILY"
\* the seed the model constructs and deserializes sketches with
DEFAULT_SEED == "DEFAULT_SEED"

\* the lg_k values the model constructs sketches with
LgKs == {CPC_MIN_LG_K, CPC_MIN_LG_K + 1}

(***************************************************************************)
(* Builds.  A shift of a 32-bit int by 32 or more is undefined behaviour;  *)
(* the builds differ in what the shift instruction does with the count:    *)
(* "mod32" uses the count modulo 32 (x86, AArch64), "zero" shifts every    *)
(* bit out (ARM32 register shifts).  Both keep the low 32 bits of a result *)
(* that overflows int (two's complement wrap-around).                      *)
(***************************************************************************)
Builds == {"mod32", "zero"}

(***************************************************************************)
(* Words as bit sets                                                       *)
(***************************************************************************)
XOR(a, b) == (a \ b) \cup (b \ a)

Min(S) == CHOOSE x \in S : \A y \in S : x <= y

\* uint64_t >> n
ShiftRight(word, n) == {b - n : b \in {x \in word : x >= n}}

\* uint64_t << n, n < 64
ShiftLeft64(word, n) == {b + n : b \in {x \in word : x + n <= 63}}

\* conversion of an int to uint64_t: sign extension
SignExtend(bits32) == IF 31 \in bits32 THEN bits32 \cup (32..63) ELSE bits32

\* v << n evaluated in int, v a non-negative int, n in 0..63
IntShl(v, n) ==
  IF n >= 32
  THEN IF build = "mod32" THEN {b + (n - 32) : b \in {x \in v : x + (n - 32) <= 31}}
       ELSE {}
  ELSE {b + n : b \in {x \in v : x + n <= 31}}

\* v - 1 evaluated in int (two's complement)
IntMinusOne(v) ==
  IF v = {} THEN 0..31
  ELSE LET m == Min(v) IN (v \ {m}) \cup (0..(m - 1))

\* the expression "1 << n" used as a uint64_t operand
one_shl(n) == SignExtend(IntShl({0}, n))

\* the expression "(1 << n) - 1" assigned to a uint64_t
one_shl_minus_one(n) == SignExtend(IntMinusOne(IntShl({0}, n)))

\* the expression "0xff << n" used as a uint64_t operand
ff_shl(n) == SignExtend(IntShl(0..7, n))

\* count_trailing_zeros_in_u64: 64 for the zero word
count_trailing_zeros_in_u64(word) == IF word = {} THEN 64 ELSE Min(word)

(***************************************************************************)
(* row_col codes                                                           *)
(***************************************************************************)
RowCol(row, col) == 64 * row + col
col_of(row_col) == row_col % 64
row_of(row_col) == row_col \div 64

K(lg_k) == 2 ^ lg_k
Rows(lg_k) == 0..(K(lg_k) - 1)

(***************************************************************************)
(* u32_table: a set of codes                                               *)
(***************************************************************************)
\* maybe_insert: <<table', is_novel>>
maybe_insert(table, row_col) == <<table \cup {row_col}, row_col \notin table>>

\* maybe_delete: <<table', was_present>>
maybe_delete(table, row_col) == <<table \ {row_col}, row_col \in table>>

(***************************************************************************)
(* kxp and hip_est_accum                                                   *)
(***************************************************************************)
ZeroFrac == [e \in 1..64 |-> 0]

\* the double with integer value n
DoubleOf(n) == [whole |-> n, frac |-> ZeroFrac]

\* x - INVERSE_POWERS_OF_2[e]
MinusInvPow2(x, e) == [x EXCEPT !.frac[e] = @ - 1]

\* hip_est_accum == 0
HipZero == [terms |-> 0, last |-> DoubleOf(0)]

\* hip_est_accum + k / kxp
HipPlus(hip, kxp) == [terms |-> hip.terms + 1, last |-> kxp]

(***************************************************************************)
(* Pure functions of (lg_k, num_coupons)                                   *)
(***************************************************************************)
determine_correct_offset(lg_k, c) ==
  LET tmp == 8 * c - 19 * K(lg_k)
  IN IF tmp < 0 THEN 0 ELSE tmp \div (8 * K(lg_k))

determine_flavor(lg_k, c) ==
  LET k == K(lg_k)
  IN IF c = 0 THEN "EMPTY"
     ELSE IF 32 * c < 3 * k THEN "SPARSE"
     ELSE IF 2 * c < k THEN "HYBRID"
     ELSE IF 8 * c < 27 * k THEN "PINNED"
     ELSE "SLIDING"

(***************************************************************************)
(* Construction                                                            *)
(***************************************************************************)
\* the range check of the constructor, with ">=" for ">" at the upper end
lg_k_out_of_range_strict(lg_k) == lg_k < CPC_MIN_LG_K \/ lg_k >= CPC_MAX_LG_K

\* the range check of the constructor
lg_k_out_of_range(lg_k) == lg_k < CPC_MIN_LG_K \/ lg_k > CPC_MAX_LG_K

\* cpc_sketch_alloc(lg_k, seed); err names the exception an operation on the
\* sketch has raised, "none" while it has raised none; bit_matrices is the
\* number of bit-matrix buffers that operations on the sketch have allocated
\* and not deallocated
new(lg_k, seed) ==
  [lg_k |-> lg_k,
   seed |-> seed,
   was_merged |-> FALSE,
   num_coupons |-> 0,
   surprising_value_table |-> {},
   sliding_window |-> << >>,
   window_offset |-> 0,
   first_interesting_column |-> 0,
   kxp |-> DoubleOf(K(lg_k)),
   hip_est_accum |-> HipZero,
   err |-> IF lg_k_out_of_range(lg_k) THEN "invalid_argument" ELSE "none",
   bit_matrices |-> 0]

\* sliding_window.size()
window_size(s) == Cardinality(DOMAIN s.sliding_window)

Throw(s, what) == [s EXCEPT !.err = what]

(***************************************************************************)
(* Bit matrix                                                              *)
(***************************************************************************)
\* the loop "matrix[row] ^= 1 << col" of build_bit_matrix over the codes of one row
RECURSIVE flip_codes(_, _)
flip_codes(word, codes) ==
  IF codes = {} THEN word
  ELSE LET row_col == CHOOSE x \in codes : TRUE
       IN flip_codes(XOR(word, one_shl(col_of(row_col))), codes \ {row_col})

\* the matrix that build_bit_matrix returns (window_offset <= 56)
build_bit_matrix(s) ==
  LET default_row == one_shl_minus_one(s.window_offset)
      with_window(i) ==
        IF window_size(s) > 0
        THEN default_row \cup ShiftLeft64(s.sliding_window[i], s.window_offset)
        ELSE default_row
  IN IF s.num_coupons = 0
     THEN [i \in Rows(s.lg_k) |-> default_row]
     ELSE [i \in Rows(s.lg_k) |->
             flip_codes(with_window(i),
                        {rc \in s.surprising_value_table : row_of(rc) = i})]

\* count_bits_set_in_matrix
count_bits_set_in_matrix(matrix) ==
  Cardinality(UNION {{RowCol(i, c) : c \in matrix[i]} : i \in DOMAIN matrix})

\* validate(); build_bit_matrix throws when window_offset > 56
validate(s) ==
  /\ s.window_offset <= 56
  /\ count_bits_set_in_matrix(build_bit_matrix(s)) = s.num_coupons

(***************************************************************************)
(* HIP and KXP                                                             *)
(***************************************************************************)
update_hip(s, row_col) ==
  LET col == col_of(row_col)
  IN [s EXCEPT !.hip_est_accum = HipPlus(@, s.kxp),
               !.kxp = MinusInvPow2(@, col + 1)]

\* KXP_BYTE_TABLE[byte] scaled by INVERSE_POWERS_OF_2[8 * j]: the exponents e
\* of the terms 2^-e it sums, one for each bit set in byte j of a word
KXP_BYTE_TABLE(word, j) == {b + 1 : b \in {x \in word : x \div 8 = j}}

refresh_kxp(s, bit_matrix) ==
  LET total ==
        [whole |-> 0,
         frac |-> [e \in 1..64 |->
                     Cardinality({i \in DOMAIN bit_matrix :
                                    e \in KXP_BYTE_TABLE(bit_matrix[i], (e - 1) \div 8)})]]
  IN [s EXCEPT !.kxp = total]

(***************************************************************************)
(* Window shift                                                            *)
(***************************************************************************)
\* the mask without its inversion "^ UINT64_MAX"
mask_for_clearing_window_uninverted(new_offset) == ff_shl(new_offset)

mask_for_clearing_window(new_offset) == XOR(ff_shl(new_offset), 0..63)

mask_for_flipping_early_zone(new_offset) == one_shl_minus_one(new_offset)

\* the loop "while (pattern != 0)" of move_window for row i
RECURSIVE insert_surprises(_, _, _)
insert_surprises(i, pattern, table) ==
  IF pattern = {} THEN [table |-> table, thrown |-> FALSE]
  ELSE LET col == count_trailing_zeros_in_u64(pattern)
           erased == XOR(pattern, one_shl(col))
           ins == maybe_insert(table, RowCol(i, col))
       IN IF ~ins[2] THEN [table |-> table, thrown |-> TRUE]
          ELSE insert_surprises(i, erased, ins[1])

\* the loop "for (size_t i = 0; i < k; i++)" of move_window from row i on
RECURSIVE move_window_rows(_, _, _, _, _)
move_window_rows(i, k, acc, bit_matrix, new_offset) ==
  IF i = k \/ acc.thrown THEN acc
  ELSE LET byte == ShiftRight(bit_matrix[i], new_offset) \cap (0..7)
           cleared == bit_matrix[i] \cap mask_for_clearing_window(new_offset)
           pattern == XOR(cleared, mask_for_flipping_early_zone(new_offset))
           ins == insert_surprises(i, pattern, acc.table)
       IN move_window_rows(i + 1, k,
            [table |-> ins.table,
             window |-> [acc.window EXCEPT ![i] = byte],
             all_surprises_ored |-> acc.all_surprises_ored \cup pattern,
             thrown |-> ins.thrown],
            bit_matrix, new_offset)

\* first_interesting_column without the clip to new_offset
new_first_interesting_column_noclip(all_surprises_ored, new_offset) ==
  count_trailing_zeros_in_u64(all_surprises_ored)

\* first_interesting_column after a shift
new_first_interesting_column(all_surprises_ored, new_offset) ==
  LET tz == count_trailing_zeros_in_u64(all_surprises_ored)
  IN IF tz > new_offset THEN new_offset ELSE tz

move_window(s) ==
  LET new_offset == s.window_offset + 1
  IN IF new_offset > 56 THEN Throw(s, "new_offset > 56")
     ELSE IF new_offset # determine_correct_offset(s.lg_k, s.num_coupons)
     THEN Throw(s, "new_offset is wrong")
     ELSE IF window_size(s) = 0 THEN Throw(s, "no sliding window")
     ELSE
       LET bit_matrix == build_bit_matrix(s)
           s1 == IF new_offset % 8 = 0 THEN refresh_kxp(s, bit_matrix) ELSE s
           r == move_window_rows(0, K(s.lg_k),
                  [table |-> {}, window |-> s.sliding_window,
                   all_surprises_ored |-> {}, thrown |-> FALSE],
                  bit_matrix, new_offset)
           \* uint64_t* bit_matrix = build_bit_matrix()
           allocated == s.bit_matrices + 1
           \* AllocU64().deallocate(bit_matrix, k)
           deallocated == allocated - 1
       IN IF r.thrown
          THEN [s1 EXCEPT !.surprising_value_table = r.table,
                          !.sliding_window = r.window,
                          !.bit_matrices = allocated,
                          !.err = "is_novel != true"]
          ELSE [s1 EXCEPT !.surprising_value_table = r.table,
                          !.sliding_window = r.window,
                          !.bit_matrices = deallocated,
                          !.window_offset = new_offset,
                          !.first_interesting_column =
                             new_first_interesting_column(r.all_surprises_ored, new_offset)]

(***************************************************************************)
(* Promotion                                                               *)
(***************************************************************************)
\* the condition that promote_sparse_to_windowed checks on c32
promote_c32_is_right(lg_k, c32) ==
  c32 = 3 * K(lg_k) \/ (lg_k = 4 /\ c32 > 3 * K(lg_k))

\* promotion that leaves the codes of the columns below 8 in the table too
promote_sparse_to_windowed_keep_table(s) ==
  LET k == K(s.lg_k)
      c32 == 32 * s.num_coupons
      old_slots == s.surprising_value_table
      zeroed == [s EXCEPT !.sliding_window = [i \in Rows(s.lg_k) |-> {}]]
  IN IF ~promote_c32_is_right(s.lg_k, c32) THEN Throw(s, "wrong c32")
     ELSE IF s.window_offset # 0 THEN Throw(zeroed, "window_offset != 0")
     ELSE [s EXCEPT
             !.sliding_window =
                [i \in Rows(s.lg_k) |->
                   {col_of(rc) : rc \in {x \in old_slots : row_of(x) = i /\ col_of(x) < 8}}]]

promote_sparse_to_windowed(s) ==
  LET k == K(s.lg_k)
      c32 == 32 * s.num_coupons
      old_slots == s.surprising_value_table
      zeroed == [s EXCEPT !.sliding_window = [i \in Rows(s.lg_k) |-> {}]]
  IN IF ~promote_c32_is_right(s.lg_k, c32) THEN Throw(s, "wrong c32")
     ELSE IF s.window_offset # 0 THEN Throw(zeroed, "window_offset != 0")
     ELSE [s EXCEPT
             !.sliding_window =
                [i \in Rows(s.lg_k) |->
                   {col_of(rc) : rc \in {x \in old_slots : row_of(x) = i /\ col_of(x) < 8}}],
             !.surprising_value_table = {x \in old_slots : col_of(x) >= 8}]

(***************************************************************************)
(* Updates                                                                 *)
(***************************************************************************)
\* a coupon counted twice
increment_twice(num_coupons) == num_coupons + 2

\* num_coupons++
increment(num_coupons) == num_coupons + 1

\* promotion at 32C >= 4K instead of 32C >= 3K
sparse_must_promote_at_4k(k, c32post) == c32post >= 4 * k

\* ">" for ">=" in the threshold of update_sparse
sparse_must_promote_gt(k, c32post) == c32post > 3 * k

\* the threshold of update_sparse for promotion
sparse_must_promote(k, c32post) == c32post >= 3 * k

\* the sketch of update_sparse with the novel coupon collected, before the
\* promotion
update_sparse_collect(s, row_col) ==
  LET ins == maybe_insert(s.surprising_value_table, row_col)
  IN update_hip([s EXCEPT !.surprising_value_table = ins[1],
                          !.num_coupons = increment(@)], row_col)

update_sparse(s, row_col) ==
  LET k == K(s.lg_k)
      c32pre == 32 * s.num_coupons
      ins == maybe_insert(s.surprising_value_table, row_col)
      s1 == update_sparse_collect(s, row_col)
  IN IF c32pre >= 3 * k THEN Throw(s, "c32pre >= 3 * k")
     ELSE IF ~ins[2] THEN s
     ELSE IF sparse_must_promote(k, 32 * s1.num_coupons)
          THEN promote_sparse_to_windowed(s1)
          ELSE s1

\* the threshold of update_windowed for a window shift
windowed_must_shift(k, c8post, w8pre) == c8post >= (27 + w8pre) * k

\* the zone dispatch of update_windowed: <<table, window, is_novel>>
update_windowed_zone(s, row_col) ==
  LET col == col_of(row_col)
      row == row_of(row_col)
  IN IF col < s.window_offset
     THEN LET d == maybe_delete(s.surprising_value_table, row_col)
          IN <<d[1], s.sliding_window, d[2]>>
     ELSE IF col < s.window_offset + 8
     THEN LET old_bits == s.sliding_window[row]
              new_bits == old_bits \cup {col - s.window_offset}
          IN <<s.surprising_value_table,
               [s.sliding_window EXCEPT ![row] = new_bits],
               new_bits # old_bits>>
     ELSE LET a == maybe_insert(s.surprising_value_table, row_col)
          IN <<a[1], s.sliding_window, a[2]>>

\* the sketch of update_windowed with the novel coupon collected, before
\* the window shift
update_windowed_collect(s, row_col) ==
  LET zone == update_windowed_zone(s, row_col)
  IN update_hip([s EXCEPT !.surprising_value_table = zone[1],
                          !.sliding_window = zone[2],
                          !.num_coupons = increment(@)], row_col)

update_windowed(s, row_col) ==
  LET k == K(s.lg_k)
      c32pre == 32 * s.num_coupons
      c8pre == 8 * s.num_coupons
      w8pre == 8 * s.window_offset
      zone == update_windowed_zone(s, row_col)
      s1 == update_windowed_collect(s, row_col)
      c8post == 8 * s1.num_coupons
      s2 == move_window(s1)
  IN IF s.window_offset > 56 THEN Throw(s, "wrong window offset")
     ELSE IF c32pre < 3 * k THEN Throw(s, "c32pre < 3 * k")
     ELSE IF c8pre >= (27 + w8pre) * k THEN Throw(s, "c8pre is wrong")
     ELSE IF ~zone[3] THEN s
     ELSE IF ~windowed_must_shift(k, c8post, w8pre) THEN s1
     ELSE IF s2.err # "none" THEN s2
     ELSE IF s2.window_offset < 1 \/ s2.window_offset > 56
          THEN Throw(s2, "wrong window offset")
     ELSE IF c8post >= (27 + 8 * s2.window_offset) * k THEN Throw(s2, "c8pre is wrong")
     ELSE s2

\* row_col_update without the return for a column below first_interesting_column
row_col_update_no_short_circuit(s, row_col) ==
  IF window_size(s) = 0 THEN update_sparse(s, row_col)
  ELSE update_windowed(s, row_col)

row_col_update(s, row_col) ==
  LET col == col_of(row_col)
  IN IF col < s.first_interesting_column THEN s
     ELSE IF window_size(s) = 0 THEN update_sparse(s, row_col)
     ELSE update_windowed(s, row_col)

(***************************************************************************)
(* update(value): a value is the sequence of its bytes.                    *)
(***************************************************************************)
\* the hash function, given by its value on the byte sequences the model
\* uses: [h1, h2], two 64-bit words
MurmurHash3_x64_128(key, len, seed) ==
  LET data == SubSeq(key, 1, len)
  IN IF data = << >> THEN [h1 |-> {0, 2}, h2 |-> {62}]
     ELSE IF data = <<97>> THEN [h1 |-> {1, 40}, h2 |-> {63, 5}]
     ELSE IF data = <<98>> THEN [h1 |-> {0, 1, 5}, h2 |-> {}]
     ELSE [h1 |-> {0, 3, 17}, h2 |-> {2 * Len(data), 1}]

\* 64 for the word 0
count_leading_zeros_in_u64(word) ==
  IF word = {} THEN 64 ELSE 63 - (CHOOSE b \in word : \A c \in word : c <= b)

\* the number a word of bits below 31 stands for
RECURSIVE NumberOf(_)
NumberOf(word) ==
  IF word = {} THEN 0
  ELSE LET b == Min(word) IN 2 ^ b + NumberOf(word \ {b})

\* row_col_from_two_hashes without the change of the code UINT32_MAX
row_col_from_two_hashes_no_remap(hash0, hash1, lg_k) ==
  IF lg_k > 26 THEN [err |-> "lg_k > 26"]
  ELSE
    LET clz == count_leading_zeros_in_u64(hash1)
        col == IF clz > 63 THEN 63 ELSE clz
        row == {b \in hash0 : b < lg_k}
        shifted == {b + 6 : b \in {x \in row : x + 6 <= 31}}
        row_col == shifted \cup {b \in 0..7 : (col \div 2 ^ b) % 2 = 1}
    IN [err |-> "none", row_col |-> row_col]

\* [err, row_col]; row_col is a uint32_t, the set of the positions of its 1 bits
row_col_from_two_hashes(hash0, hash1, lg_k) ==
  IF lg_k > 26 THEN [err |-> "lg_k > 26"]
  ELSE
    LET clz == count_leading_zeros_in_u64(hash1)
        col == IF clz > 63 THEN 63 ELSE clz
        \* hash0 & (k - 1)
        row == {b \in hash0 : b < lg_k}
        \* row << 6 in uint32_t
        shifted == {b + 6 : b \in {x \in row : x + 6 <= 31}}
        row_col == shifted \cup {b \in 0..7 : (col \div 2 ^ b) % 2 = 1}
    IN [err |-> "none",
        row_col |-> IF row_col = 0..31 THEN XOR(row_col, {6}) ELSE row_col]

\* update(const void* value, int size); the code is handed on as the number
\* 64 * row + col
update_bytes(s, value, size) ==
  LET hashes == MurmurHash3_x64_128(value, size, s.seed)
      rc == row_col_from_two_hashes(hashes.h1, hashes.h2, s.lg_k)
  IN IF rc.err # "none" THEN Throw(s, rc.err)
     ELSE row_col_update(s, RowCol(NumberOf(ShiftRight(rc.row_col, 6)),
                                   NumberOf(rc.row_col \cap (0..5))))

\* update(const std::string& value)
update_string(s, value) ==
  IF value = << >> THEN s ELSE update_bytes(s, value, Len(value))

(***************************************************************************)
(* Estimates and bounds.  The estimators and the confidence bounds are     *)
(* named by the function that computes them and its arguments.             *)
(***************************************************************************)
is_empty(s) == s.num_coupons = 0

get_hip_estimate(s) == <<"hip", s.hip_est_accum>>

get_icon_estimate(s) == <<"compute_icon_estimate", s.lg_k, s.num_coupons>>

\* get_estimate with the two estimators swapped
get_estimate_swapped(s) ==
  IF s.was_merged THEN get_hip_estimate(s) ELSE get_icon_estimate(s)

get_estimate(s) ==
  IF ~s.was_merged THEN get_hip_estimate(s) ELSE get_icon_estimate(s)

\* the check of kappa that forgets 0
kappa_out_of_range_above(kappa) == kappa > 3

\* the check of kappa
kappa_out_of_range(kappa) == kappa < 1 \/ kappa > 3

\* [err, value]; no value is returned when err # "none"
get_lower_bound(s, kappa) ==
  IF kappa_out_of_range(kappa) THEN [err |-> "invalid_argument"]
  ELSE IF ~s.was_merged
  THEN [err |-> "none", value |-> <<"get_hip_confidence_lb", s.lg_k, s.num_coupons, kappa>>]
  ELSE [err |-> "none", value |-> <<"get_icon_confidence_lb", s.lg_k, s.num_coupons, kappa>>]

get_upper_bound(s, kappa) ==
  IF kappa_out_of_range(kappa) THEN [err |-> "invalid_argument"]
  ELSE IF ~s.was_merged
  THEN [err |-> "none", value |-> <<"get_hip_confidence_ub", s.lg_k, s.num_coupons, kappa>>]
  ELSE [err |-> "none", value |-> <<"get_icon_confidence_ub", s.lg_k, s.num_coupons, kappa>>]

(***************************************************************************)
(* The input stream.  The codes come from a column-major stream over the   *)
(* bit matrix, (0,0), (1,0), ..., (k-1,0), (0,1), ..., which leaves out     *)
(* the special codes; a special code may be fed at any time, before or     *)
(* after the stream has passed its place, and any number of times.         *)
(* The "rich" stream has special codes at high columns and is short, the   *)
(* "lean" stream has none of them and is long.                             *)
(***************************************************************************)
Streams == {"rich", "lean"}

\* a 0 left behind in column 0, a surprising 1 at a column that the window
\* reaches after a few shifts; in the rich stream also a surprising 1 at
\* column 31 and one at a column above 31
Specials(s) ==
  IF s = "rich" THEN {RowCol(3, 0), RowCol(2, 12), RowCol(0, 31), RowCol(1, 40)}
  ELSE {RowCol(3, 0), RowCol(2, 12)}

StreamLength(s) == IF s = "rich" THEN MaxFill ELSE MaxFillDeep

fill_code(lg_k, p) == RowCol(p % K(lg_k), p \div K(lg_k))

\* the first place from p on that holds no special code
RECURSIVE NextPos(_, _)
NextPos(lg_k, p) ==
  IF fill_code(lg_k, p) \in Specials(stream) THEN NextPos(lg_k, p + 1) ELSE p

\* the last place before p that holds no special code, -1 if there is none
RECURSIVE LastPos(_, _)
LastPos(lg_k, p) ==
  IF p = 0 THEN -1
  ELSE IF fill_code(lg_k, p - 1) \in Specials(stream) THEN LastPos(lg_k, p - 1)
  ELSE p - 1

\* the codes fed so far: the stream up to place pos and the special codes fed
Seen == ({fill_code(sketch.lg_k, q) : q \in 0..(pos - 1)} \ Specials(stream)) \cup fed

(***************************************************************************)
(* Serialization                                                           *)
(***************************************************************************)
\* bits of flags_byte
IS_COMPRESSED == 0
HAS_HIP == 1
HAS_TABLE == 2
HAS_WINDOW == 3

compute_seed_hash(seed) == <<"seed_hash", seed>>

RECURSIVE SortedSeq(_)
SortedSeq(S) == IF S = {} THEN << >> ELSE <<Min(S)>> \o SortedSeq(S \ {Min(S)})

Range(q) == {q[i] : i \in DOMAIN q}

\* the compressor: the table as the sorted list of its codes, one word each,
\* the window as the list of its bytes, one word each; a pointer is the record
\* [null, words]
compress(s) ==
  [table_data_ptr |-> [null |-> s.surprising_value_table = {},
                       words |-> SortedSeq(s.surprising_value_table)],
   table_data_words |-> Cardinality(s.surprising_value_table),
   table_num_entries |-> Cardinality(s.surprising_value_table),
   window_data_ptr |-> [null |-> window_size(s) = 0,
                        words |-> IF window_size(s) = 0 THEN << >>
                                  ELSE [i \in 1..K(s.lg_k) |-> s.sliding_window[i - 1]]],
   window_data_words |-> window_size(s)]

\* the inverse of the compressor: <<table, window>>
uncompress(compressed, lg_k, num_coupons) ==
  <<IF compressed.table_data_ptr.null THEN {} ELSE Range(compressed.table_data_ptr.words),
    IF compressed.window_data_ptr.null THEN << >>
    ELSE [i \in Rows(lg_k) |-> compressed.window_data_ptr.words[i + 1]]>>

\* get_preamble_ints that adds for each flag whether or not num_coupons > 0
get_preamble_ints_flat(num_coupons, has_hip, has_table, has_window) ==
  2 + (IF num_coupons > 0 THEN 1 ELSE 0)
    + (IF has_hip THEN 4 ELSE 0)
    + (IF has_table THEN 1 + (IF has_window THEN 1 ELSE 0) ELSE 0)
    + (IF has_window THEN 1 ELSE 0)

\* get_preamble_ints that counts each of the two doubles of HIP as one word
get_preamble_ints_short_hip(num_coupons, has_hip, has_table, has_window) ==
  2 + (IF num_coupons > 0
       THEN 1 + (IF has_hip THEN 2 ELSE 0)
              + (IF has_table THEN 1 + (IF has_window THEN 1 ELSE 0) ELSE 0)
              + (IF has_window THEN 1 ELSE 0)
       ELSE 0)

\* get_preamble_ints that forgets the word of the window length
get_preamble_ints_no_window_length(num_coupons, has_hip, has_table, has_window) ==
  2 + (IF num_coupons > 0
       THEN 1 + (IF has_hip THEN 4 ELSE 0)
              + (IF has_table THEN 1 + (IF has_window THEN 1 ELSE 0) ELSE 0)
       ELSE 0)

\* get_preamble_ints that forgets the word of table_num_entries
get_preamble_ints_no_entries(num_coupons, has_hip, has_table, has_window) ==
  2 + (IF num_coupons > 0
       THEN 1 + (IF has_hip THEN 4 ELSE 0)
              + (IF has_table THEN 1 ELSE 0)
              + (IF has_window THEN 1 ELSE 0)
       ELSE 0)

get_preamble_ints(num_coupons, has_hip, has_table, has_window) ==
  2 + (IF num_coupons > 0
       THEN 1 + (IF has_hip THEN 4 ELSE 0)
              + (IF has_table THEN 1 + (IF has_window THEN 1 ELSE 0) ELSE 0)
              + (IF has_window THEN 1 ELSE 0)
       ELSE 0)

\* write_hip
write_hip(s) == <<s.kxp, s.hip_est_accum>>

\* serialize: the fields in the order they are written, one element each
\* (the payloads one element for each word)
serialize(s) ==
  LET compressed == compress(s)
      has_hip == ~s.was_merged
      has_table == ~compressed.table_data_ptr.null
      has_window == ~compressed.window_data_ptr.null
      preamble_ints == get_preamble_ints(s.num_coupons, has_hip, has_table, has_window)
      flags_byte == {IS_COMPRESSED}
                      \cup (IF has_hip THEN {HAS_HIP} ELSE {})
                      \cup (IF has_table THEN {HAS_TABLE} ELSE {})
                      \cup (IF has_window THEN {HAS_WINDOW} ELSE {})
      header == <<preamble_ints, SERIAL_VERSION, FAMILY, s.lg_k,
                  s.first_interesting_column, flags_byte, compute_seed_hash(s.seed)>>
  IN IF s.num_coupons = 0 THEN header
     ELSE header
          \o <<s.num_coupons>>
          \o (IF has_table /\ has_window
              THEN <<compressed.table_num_entries>> \o (IF has_hip THEN write_hip(s) ELSE << >>)
              ELSE << >>)
          \o (IF has_table THEN <<compressed.table_data_words>> ELSE << >>)
          \o (IF has_window THEN <<compressed.window_data_words>> ELSE << >>)
          \o (IF has_hip /\ ~(has_table /\ has_window) THEN write_hip(s) ELSE << >>)
          \o (IF has_window THEN compressed.window_data_ptr.words ELSE << >>)
          \o (IF has_table THEN compressed.table_data_ptr.words ELSE << >>)

\* the constructor that deserialize calls
deserialized(lg_k, num_coupons, first_interesting_column, table, window, has_hip, kxp, hip_est_accum, seed) ==
  [lg_k |-> lg_k,
   seed |-> seed,
   was_merged |-> ~has_hip,
   num_coupons |-> num_coupons,
   surprising_value_table |-> table,
   sliding_window |-> window,
   window_offset |-> determine_correct_offset(lg_k, num_coupons),
   first_interesting_column |-> first_interesting_column,
   kxp |-> kxp,
   hip_est_accum |-> hip_est_accum,
   err |-> "none",
   bit_matrices |-> 0]

\* the four checks without the check of the family
check_preamble_no_family(preamble_ints, expected_preamble_ints, serial_version, family_id, seed_hash, seed) ==
  IF preamble_ints # expected_preamble_ints THEN "invalid_argument"
  ELSE IF serial_version # SERIAL_VERSION THEN "invalid_argument"
  ELSE IF seed_hash # compute_seed_hash(seed) THEN "invalid_argument"
  ELSE "none"

\* the four checks raising std::logic_error
check_preamble_logic_error(preamble_ints, expected_preamble_ints, serial_version, family_id, seed_hash, seed) ==
  IF preamble_ints # expected_preamble_ints THEN "preamble ints"
  ELSE IF serial_version # SERIAL_VERSION THEN "serial version"
  ELSE IF family_id # FAMILY THEN "family"
  ELSE IF seed_hash # compute_seed_hash(seed) THEN "seed hashes"
  ELSE "none"

\* the four checks that deserialize makes before it uncompresses: the
\* exception raised, "none" if none
check_preamble(preamble_ints, expected_preamble_ints, serial_version, family_id, seed_hash, seed) ==
  IF preamble_ints # expected_preamble_ints THEN "invalid_argument"
  ELSE IF serial_version # SERIAL_VERSION THEN "invalid_argument"
  ELSE IF family_id # FAMILY THEN "invalid_argument"
  ELSE IF seed_hash # compute_seed_hash(seed) THEN "invalid_argument"
  ELSE "none"

\* deserialize(is, seed): [err, sketch]; no sketch is returned when err # "none".
\* Each field is read at the place the fields read before it leave it at.
deserialize(bytes, seed) ==
  LET preamble_ints == bytes[1]
      serial_version == bytes[2]
      family_id == bytes[3]
      lg_k == bytes[4]
      first_interesting_column == bytes[5]
      flags_byte == bytes[6]
      seed_hash == bytes[7]
      has_hip == HAS_HIP \in flags_byte
      has_table == HAS_TABLE \in flags_byte
      has_window == HAS_WINDOW \in flags_byte
      body == has_table \/ has_window
      both == has_table /\ has_window
      \* places of the fields after the header
      p_num_coupons == 8
      p_entries == 9
      p_hip1 == 10
      p_table_words == 9 + (IF both THEN 1 + (IF has_hip THEN 2 ELSE 0) ELSE 0)
      p_window_words == p_table_words + (IF has_table THEN 1 ELSE 0)
      p_hip2 == p_window_words + (IF has_window THEN 1 ELSE 0)
      p_window == p_hip2 + (IF has_hip /\ ~both THEN 2 ELSE 0)
      num_coupons == IF body THEN bytes[p_num_coupons] ELSE 0
      table_data_words == IF body /\ has_table THEN bytes[p_table_words] ELSE 0
      window_data_words == IF body /\ has_window THEN bytes[p_window_words] ELSE 0
      p_table == p_window + window_data_words
      p_hip == IF both THEN p_hip1 ELSE p_hip2
      kxp == IF body /\ has_hip THEN bytes[p_hip] ELSE DoubleOf(0)
      hip_est_accum == IF body /\ has_hip THEN bytes[p_hip + 1] ELSE HipZero
      compressed ==
        [table_data_ptr |-> IF body /\ has_table
                            THEN [null |-> FALSE,
                                  words |-> SubSeq(bytes, p_table, p_table + table_data_words - 1)]
                            ELSE [null |-> TRUE, words |-> << >>],
         table_data_words |-> table_data_words,
         table_num_entries |-> IF ~body THEN 0
                               ELSE IF ~has_window THEN num_coupons
                               ELSE IF both THEN bytes[p_entries] ELSE 0,
         window_data_ptr |-> IF body /\ has_window
                             THEN [null |-> FALSE,
                                   words |-> SubSeq(bytes, p_window, p_window + window_data_words - 1)]
                             ELSE [null |-> TRUE, words |-> << >>],
         window_data_words |-> window_data_words]
      expected_preamble_ints == get_preamble_ints(num_coupons, has_hip, has_table, has_window)
      uncompressed == uncompress(compressed, lg_k, num_coupons)
      checked == check_preamble(preamble_ints, expected_preamble_ints, serial_version,
                                family_id, seed_hash, seed)
  IN IF checked # "none" THEN [err |-> checked]
     ELSE [err |-> "none",
           sketch |-> deserialized(lg_k, num_coupons, first_interesting_column,
                                   uncompressed[1], uncompressed[2],
                                   has_hip, kxp, hip_est_accum, seed)]

\* sizeof of the fields
SIZEOF_U8 == 1
SIZEOF_U16 == 2
SIZEOF_U32 == 4
SIZEOF_DOUBLE == 8

\* copy_hip_to_mem: the number of bytes written
copy_hip_to_mem == SIZEOF_DOUBLE + SIZEOF_DOUBLE

\* serialize(header_size_bytes): [err, size, bytes]; bytes are the fields written
\* after the header space, as serialize(os) writes them
serialize_to_bytes(s, header_size_bytes) ==
  LET compressed == compress(s)
      has_hip == ~s.was_merged
      has_table == ~compressed.table_data_ptr.null
      has_window == ~compressed.window_data_ptr.null
      preamble_ints == get_preamble_ints(s.num_coupons, has_hip, has_table, has_window)
      size == header_size_bytes
              + (preamble_ints + compressed.table_data_words + compressed.window_data_words)
                * SIZEOF_U32
      \* ptr - data_ptr after the last field
      written ==
        header_size_bytes
        + 6 * SIZEOF_U8 + SIZEOF_U16
        + (IF is_empty(s) THEN 0
           ELSE SIZEOF_U32
                + (IF has_table /\ has_window
                   THEN SIZEOF_U32 + (IF has_hip THEN copy_hip_to_mem ELSE 0) ELSE 0)
                + (IF has_table THEN SIZEOF_U32 ELSE 0)
                + (IF has_window THEN SIZEOF_U32 ELSE 0)
                + (IF has_hip /\ ~(has_table /\ has_window) THEN copy_hip_to_mem ELSE 0)
                + (IF has_window THEN compressed.window_data_words * SIZEOF_U32 ELSE 0)
                + (IF has_table THEN compressed.table_data_words * SIZEOF_U32 ELSE 0))
  IN IF written # size THEN [err |-> "serialized size mismatch"]
     ELSE [err |-> "none", size |-> size, bytes |-> serialize(s)]

\* deserialize(bytes, size, seed): bytes are the fields from the first byte on
deserialize_from_bytes(bytes, size, seed) ==
  LET flags_byte == bytes[6]
      has_hip == HAS_HIP \in flags_byte
      has_table == HAS_TABLE \in flags_byte
      has_window == HAS_WINDOW \in flags_byte
      body == has_table \/ has_window
      both == has_table /\ has_window
      p_table_words == 9 + (IF both THEN 1 + (IF has_hip THEN 2 ELSE 0) ELSE 0)
      p_window_words == p_table_words + (IF has_table THEN 1 ELSE 0)
      table_data_words == IF body /\ has_table THEN bytes[p_table_words] ELSE 0
      window_data_words == IF body /\ has_window THEN bytes[p_window_words] ELSE 0
      \* ptr - bytes after the last field
      read ==
        6 * SIZEOF_U8 + SIZEOF_U16
        + (IF ~body THEN 0
           ELSE SIZEOF_U32
                + (IF both THEN SIZEOF_U32 + (IF has_hip THEN 2 * SIZEOF_DOUBLE ELSE 0) ELSE 0)
                + (IF has_table THEN SIZEOF_U32 ELSE 0)
                + (IF has_window THEN SIZEOF_U32 ELSE 0)
                + (IF has_hip /\ ~both THEN 2 * SIZEOF_DOUBLE ELSE 0)
                + (IF has_window THEN window_data_words * SIZEOF_U32 ELSE 0)
                + (IF has_table THEN table_data_words * SIZEOF_U32 ELSE 0))
  IN IF read # size THEN [err |-> "deserialized size mismatch"]
     ELSE deserialize(bytes, seed)

(***************************************************************************)
(* Field order.  The names of the fields in the order in which each of the *)
(* two serialize overloads writes them and each of the two deserialize     *)
(* overloads reads them; a payload is one name.                            *)
(***************************************************************************)
HeaderFields == <<"preamble_ints", "serial_version", "family", "lg_k", "first_interesting_column", "flags_byte", "seed_hash">>

\* serialize(os) that writes HIP at the second decision point only
serialize_fields_hip_late(s) ==
  LET compressed == compress(s)
      has_hip == ~s.was_merged
      has_table == ~compressed.table_data_ptr.null
      has_window == ~compressed.window_data_ptr.null
  IN IF is_empty(s) THEN HeaderFields
     ELSE HeaderFields
          \o <<"num_coupons">>
          \o (IF has_table /\ has_window THEN <<"table_num_entries">> ELSE << >>)
          \o (IF has_table THEN <<"table_data_words">> ELSE << >>)
          \o (IF has_window THEN <<"window_data_words">> ELSE << >>)
          \o (IF has_hip THEN <<"kxp", "hip_est_accum">> ELSE << >>)
          \o (IF has_window THEN <<"window_data">> ELSE << >>)
          \o (IF has_table THEN <<"table_data">> ELSE << >>)

\* serialize(os): the os.write calls
serialize_fields(s) ==
  LET compressed == compress(s)
      has_hip == ~s.was_merged
      has_table == ~compressed.table_data_ptr.null
      has_window == ~compressed.window_data_ptr.null
  IN IF is_empty(s) THEN HeaderFields
     ELSE HeaderFields
          \o <<"num_coupons">>
          \o (IF has_table /\ has_window
              THEN <<"table_num_entries">>
                   \o (IF has_hip THEN <<"kxp", "hip_est_accum">> ELSE << >>)
              ELSE << >>)
          \o (IF has_table THEN <<"table_data_words">> ELSE << >>)
          \o (IF has_window THEN <<"window_data_words">> ELSE << >>)
          \o (IF has_hip /\ ~(has_table /\ has_window)
              THEN <<"kxp", "hip_est_accum">> ELSE << >>)
          \o (IF has_window THEN <<"window_data">> ELSE << >>)
          \o (IF has_table THEN <<"table_data">> ELSE << >>)

\* serialize(header_size_bytes): the copy_to_mem and copy_hip_to_mem calls
serialize_to_bytes_fields(s) ==
  LET compressed == compress(s)
      has_hip == ~s.was_merged
      has_table == ~compressed.table_data_ptr.null
      has_window == ~compressed.window_data_ptr.null
  IN IF is_empty(s) THEN HeaderFields
     ELSE HeaderFields
          \o <<"num_coupons">>
          \o (IF has_table /\ has_window
              THEN <<"table_num_entries">>
                   \o (IF has_hip THEN <<"kxp", "hip_est_accum">> ELSE << >>)
              ELSE << >>)
          \o (IF has_table THEN <<"table_data_words">> ELSE << >>)
          \o (IF has_window THEN <<"window_data_words">> ELSE << >>)
          \o (IF has_hip /\ ~(has_table /\ has_window)
              THEN <<"kxp", "hip_est_accum">> ELSE << >>)
          \o (IF has_window THEN <<"window_data">> ELSE << >>)
          \o (IF has_table THEN <<"table_data">> ELSE << >>)

\* deserialize(is, seed) that reads the fields after the header only when
\* HAS_TABLE is set
deserialize_fields_table_only(flags_byte) ==
  LET has_hip == HAS_HIP \in flags_byte
      has_table == HAS_TABLE \in flags_byte
      has_window == HAS_WINDOW \in flags_byte
  IN IF ~has_table THEN HeaderFields
     ELSE HeaderFields
          \o <<"num_coupons">>
          \o (IF has_table /\ has_window
              THEN <<"table_num_entries">>
                   \o (IF has_hip THEN <<"kxp", "hip_est_accum">> ELSE << >>)
              ELSE << >>)
          \o (IF has_table THEN <<"table_data_words">> ELSE << >>)
          \o (IF has_window THEN <<"window_data_words">> ELSE << >>)
          \o (IF has_hip /\ ~(has_table /\ has_window)
              THEN <<"kxp", "hip_est_accum">> ELSE << >>)
          \o (IF has_window THEN <<"window_data">> ELSE << >>)
          \o (IF has_table THEN <<"table_data">> ELSE << >>)

\* deserialize(is, seed): the is.read calls, by the flags byte read
deserialize_fields(flags_byte) ==
  LET has_hip == HAS_HIP \in flags_byte
      has_table == HAS_TABLE \in flags_byte
      has_window == HAS_WINDOW \in flags_byte
  IN IF ~(has_table \/ has_window) THEN HeaderFields
     ELSE HeaderFields
          \o <<"num_coupons">>
          \o (IF has_table /\ has_window
              THEN <<"table_num_entries">>
                   \o (IF has_hip THEN <<"kxp", "hip_est_accum">> ELSE << >>)
              ELSE << >>)
          \o (IF has_table THEN <<"table_data_words">> ELSE << >>)
          \o (IF has_window THEN <<"window_data_words">> ELSE << >>)
          \o (IF has_hip /\ ~(has_table /\ has_window)
              THEN <<"kxp", "hip_est_accum">> ELSE << >>)
          \o (IF has_window THEN <<"window_data">> ELSE << >>)
          \o (IF has_table THEN <<"table_data">> ELSE << >>)

\* deserialize(bytes, size, seed): the copy_from_mem calls, by the flags byte read
deserialize_from_bytes_fields(flags_byte) ==
  LET has_hip == HAS_HIP \in flags_byte
      has_table == HAS_TABLE \in flags_byte
      has_window == HAS_WINDOW \in flags_byte
  IN IF ~(has_table \/ has_window) THEN HeaderFields
     ELSE HeaderFields
          \o <<"num_coupons">>
          \o (IF has_table /\ has_window
              THEN <<"table_num_entries">>
                   \o (IF has_hip THEN <<"kxp", "hip_est_accum">> ELSE << >>)
              ELSE << >>)
          \o (IF has_table THEN <<"table_data_words">> ELSE << >>)
          \o (IF has_window THEN <<"window_data_words">> ELSE << >>)
          \o (IF has_hip /\ ~(has_table /\ has_window)
              THEN <<"kxp", "hip_est_accum">> ELSE << >>)
          \o (IF has_window THEN <<"window_data">> ELSE << >>)
          \o (IF has_table THEN <<"table_data">> ELSE << >>)

\* the places of a field in a sequence of fields
Places(fields, name) == {i \in DOMAIN fields : fields[i] = name}

\* the exception type of an error: the constructor, the bounds and the checks
\* of deserialize raise std::invalid_argument, every other throw is a
\* std::logic_error
exception_type(err) ==
  IF err = "none" THEN "none"
  ELSE IF err = "invalid_argument" THEN "std::invalid_argument"
  ELSE "std::logic_error"

(***************************************************************************)
(* Bit packing (bit_packing.hpp) and its tests (bit_packing_test.cpp).     *)
(* A value is the set of the positions of its 1 bits, a byte a subset of   *)
(* 0..7; mem is the record [bytes, ptr] of a byte buffer and the index of  *)
(* the byte that ptr points to.                                            *)
(***************************************************************************)
\* for (uint8_t bits = 1; bits <= 63; ++bits)
MIN_BITS == 1
MAX_BITS == 63
\* the number of values of a block, and of a test input
BLOCK == 8

\* (word << n) as a uint8_t
ShiftLeft8(word, n) == {b + n : b \in {x \in word : x + n <= 7}}

\* the loop "while (bits >= 8)" of pack_bits: [mem, bits]
RECURSIVE pack_bits_whole_bytes(_, _, _)
pack_bits_whole_bytes(value, bits, mem) ==
  IF bits < 8 THEN [mem |-> mem, bits |-> bits]
  ELSE pack_bits_whole_bytes(value, bits - 8,
         [bytes |-> [mem.bytes EXCEPT ![mem.ptr] = ShiftRight(value, bits - 8) \cap (0..7)],
          ptr |-> mem.ptr + 1])

\* pack_bits(value, bits, ptr, offset): [mem, offset], offset the number of
\* bits used in the byte at ptr
pack_bits(value, bits, mem, offset) ==
  LET chunk_bits == 8 - offset
      mask == 0..(chunk_bits - 1)
      fits == offset > 0 /\ bits < chunk_bits
      \* the rest of the byte at ptr filled
      head == IF offset > 0
              THEN [bytes |-> [mem.bytes EXCEPT ![mem.ptr] =
                                 @ \cup (ShiftRight(value, bits - chunk_bits) \cap mask)],
                    ptr |-> mem.ptr + 1]
              ELSE mem
      whole == pack_bits_whole_bytes(value, IF offset > 0 THEN bits - chunk_bits ELSE bits, head)
  IN IF fits
     THEN [mem |-> [mem EXCEPT !.bytes[mem.ptr] =
                      @ \cup ({b + (chunk_bits - bits) : b \in value} \cap mask)],
           offset |-> offset + bits]
     ELSE IF whole.bits > 0
     THEN [mem |-> [whole.mem EXCEPT !.bytes[whole.mem.ptr] = ShiftLeft8(value, 8 - whole.bits)],
           offset |-> whole.bits]
     ELSE [mem |-> whole.mem, offset |-> 0]

\* the loop "while (bits >= 8)" of unpack_bits: [value, ptr, bits]
RECURSIVE unpack_bits_whole_bytes(_, _, _, _)
unpack_bits_whole_bytes(value, bits, bytes, ptr) ==
  IF bits < 8 THEN [value |-> value, ptr |-> ptr, bits |-> bits]
  ELSE unpack_bits_whole_bytes({b + 8 : b \in value} \cup bytes[ptr], bits - 8, bytes, ptr + 1)

\* unpack_bits(value, bits, ptr, offset): [value, ptr, offset]
unpack_bits(bits, mem, offset) ==
  LET avail_bits == 8 - offset
      chunk_bits == IF avail_bits < bits THEN avail_bits ELSE bits
      mask == 0..(chunk_bits - 1)
      head == ShiftRight(mem.bytes[mem.ptr], avail_bits - chunk_bits) \cap mask
      ptr == IF avail_bits = chunk_bits THEN mem.ptr + 1 ELSE mem.ptr
      whole == unpack_bits_whole_bytes(head, bits - chunk_bits, mem.bytes, ptr)
  IN IF whole.bits > 0
     THEN [value |-> {b + whole.bits : b \in whole.value}
                       \cup ShiftRight(mem.bytes[whole.ptr], 8 - whole.bits),
           ptr |-> whole.ptr, offset |-> whole.bits]
     ELSE [value |-> whole.value, ptr |-> whole.ptr, offset |-> (offset + chunk_bits) % 8]

\* pack_bits_block8(values, ptr, bits): the bytes written, the values one
\* after the other, each from its highest bit down, each byte filled from
\* its highest bit down
pack_bits_block8(values, bits) ==
  [j \in 1..bits |->
     {7 - (t % 8) : t \in {u \in (8 * (j - 1))..(8 * j - 1) :
                             (bits - 1 - (u % bits)) \in values[(u \div bits) + 1]}}]

\* unpack_bits_block8(values, ptr, bits): the values read
unpack_bits_block8(bytes, bits) ==
  [i \in 1..BLOCK |->
     {bits - 1 - (t % bits) : t \in {u \in (bits * (i - 1))..(bits * i - 1) :
                                       (7 - (u % 8)) \in bytes[(u \div 8) + 1]}}]

\* the test's loop over pack_bits with offset 0 passed to every call
RECURSIVE pack_each_offset_0(_, _, _, _, _)
pack_each_offset_0(input, bits, i, mem, offset) ==
  IF i > Len(input) THEN [mem |-> mem, offset |-> offset]
  ELSE LET r == pack_bits(input[i], bits, mem, 0)
       IN pack_each_offset_0(input, bits, i + 1, r.mem, r.offset)

\* for (int i = 0; i < n; ++i) offset = pack_bits(input[i], bits, ptr, offset);
RECURSIVE pack_each(_, _, _, _, _)
pack_each(input, bits, i, mem, offset) ==
  IF i > Len(input) THEN [mem |-> mem, offset |-> offset]
  ELSE LET r == pack_bits(input[i], bits, mem, offset)
       IN pack_each(input, bits, i + 1, r.mem, r.offset)

\* for (int i = 0; i < n; ++i) offset = unpack_bits(output[i], bits, cptr, offset);
RECURSIVE unpack_each(_, _, _, _, _)
unpack_each(output, bits, i, mem, offset) ==
  IF i > Len(output) THEN output
  ELSE LET r == unpack_bits(bits, mem, offset)
       IN unpack_each([output EXCEPT ![i] = r.value], bits, i + 1,
                      [bytes |-> mem.bytes, ptr |-> r.ptr], r.offset)

\* std::vector<uint8_t> bytes(size, 0) with ptr at its first byte
ZeroBytes(size) == [bytes |-> [j \in 1..size |-> {}], ptr |-> 1]

\* std::vector<uint64_t> output(8, 0)
ZeroOutput == [i \in 1..BLOCK |-> {}]

(***************************************************************************)
(* Specifications                                                          *)
(***************************************************************************)
\* ret: the latest call of an operation that returns a value or raises, with
\* its arguments and its result
NoCall == [op |-> "none"]
\* origin: how the sketch object came to be
Constructed == [kind |-> "new"]
Deserialized(has_hip) == [kind |-> "deserialized", has_hip |-> has_hip]

Init ==
  /\ build \in Builds
  /\ stream \in Streams
  /\ \E lg_k \in LgKs : sketch = new(lg_k, DEFAULT_SEED)
  /\ sketch2 = sketch
  /\ held = {}
  /\ fed = {}
  /\ pos = 0
  /\ ret = NoCall
  /\ origin = Constructed

\* The inputs: <<row_col, pos', fed'>>.
\* the next code of the stream
FillInputs(max) ==
  LET q == NextPos(sketch.lg_k, pos)
  IN IF q < max /\ q < 64 * K(sketch.lg_k)
     THEN {<<fill_code(sketch.lg_k, q), q + 1, fed>>} ELSE {}

\* a special code
SpecialInputs == {<<row_col, pos, fed \cup {row_col}>> : row_col \in Specials(stream)}

\* the stream's latest code again
RepeatInputs ==
  LET q == LastPos(sketch.lg_k, pos)
  IN IF q >= 0 THEN {<<fill_code(sketch.lg_k, q), pos, fed>>} ELSE {}

Inputs(max) == FillInputs(max) \cup SpecialInputs \cup RepeatInputs

\* row_col_update(in[1]) on the sketch
Update(in) ==
  /\ sketch' = row_col_update(sketch, in[1])
  /\ pos' = in[2]
  /\ fed' = in[3]

UpdateFill ==
  /\ \E in \in FillInputs(StreamLength(stream)) : Update(in)
  /\ UNCHANGED <<sketch2, held, build, stream, ret, origin>>

UpdateSpecial ==
  /\ \E in \in SpecialInputs : Update(in)
  /\ UNCHANGED <<sketch2, held, build, stream, ret, origin>>

UpdateRepeat ==
  /\ \E in \in RepeatInputs : Update(in)
  /\ UNCHANGED <<sketch2, held, build, stream, ret, origin>>

Next == UpdateFill \/ UpdateSpecial \/ UpdateRepeat

Spec == Init /\ [][Next]_vars

\* SpecDedup: sketch is fed every code, sketch2 the first occurrence of each code only.
UpdateDedup ==
  /\ \E in \in Inputs(MaxFillPair) :
        /\ Update(in)
        /\ sketch2' = IF in[1] \in Seen THEN sketch2 ELSE row_col_update(sketch2, in[1])
  /\ UNCHANGED <<held, build, stream, ret, origin>>

NextDedup == UpdateDedup

SpecDedup == Init /\ [][NextDedup]_vars

\* SpecOrder: sketch2 is fed the codes that sketch is fed, in another order: a code
\* special code may be held back for sketch2 and fed to it later.
UpdateBoth ==
  /\ \E in \in Inputs(MaxFillPair) :
        /\ Update(in)
        /\ sketch2' = row_col_update(sketch2, in[1])
  /\ UNCHANGED <<held, build, stream, ret, origin>>

UpdateHold ==
  /\ held = {}
  /\ \E in \in SpecialInputs :
        /\ Update(in)
        /\ held' = {in[1]}
  /\ UNCHANGED <<sketch2, build, stream, ret, origin>>

UpdateHeld ==
  /\ \E row_col \in held :
        /\ sketch2' = row_col_update(sketch2, row_col)
        /\ held' = {}
  /\ UNCHANGED <<sketch, pos, fed, build, stream, ret, origin>>

NextOrder == UpdateBoth \/ UpdateHold \/ UpdateHeld

SpecOrder == Init /\ [][NextOrder]_vars

\* SpecTrace: the updates of Spec, with the latest call on record: ret holds
\* the code passed to row_col_update and sketch2 the sketch before the call.
TraceUpdate ==
  /\ \E in \in Inputs(StreamLength(stream)) :
        /\ Update(in)
        /\ ret' = [op |-> "row_col_update", row_col |-> in[1]]
  /\ sketch2' = sketch
  /\ UNCHANGED <<held, build, stream, origin>>

NextTrace == TraceUpdate

SpecTrace == Init /\ [][NextTrace]_vars

\* SpecWire: updates, and the sketch replaced by deserialize(serialize(sketch)).
UpdateWire ==
  /\ \E in \in Inputs(MaxFillWire) : Update(in)
  /\ UNCHANGED <<sketch2, held, build, stream, ret, origin>>

RoundTrip ==
  /\ LET d == deserialize(serialize(sketch), sketch.seed)
     IN /\ d.err = "none"
        /\ sketch' = d.sketch
        /\ origin' = Deserialized(HAS_HIP \in serialize(sketch)[6])
  /\ UNCHANGED <<sketch2, held, fed, pos, build, stream, ret>>

NextWire == UpdateWire \/ RoundTrip

SpecWire == Init /\ [][NextWire]_vars

(***************************************************************************)
(* SpecApi, SpecSerial: the public operations on one sketch, constructed   *)
(* with any lg_k argument; no operation is called on an object whose       *)
(* constructor raised.  SpecApi has the updates, the estimate and the      *)
(* bounds, SpecSerial (lg_k in LgKs) the updates, serialize and            *)
(* deserialize of bytes that may be corrupted.                             *)
(* SpecPreambleInts applies get_preamble_ints to its arguments.            *)
(***************************************************************************)
\* the values of update: the empty buffer and two buffers of one byte
Values == {<< >>, <<97>>, <<98>>}

\* a seed whose hash differs from the hash of DEFAULT_SEED
OTHER_SEED == "OTHER_SEED"

\* what the bytes handed to deserialize differ in from the bytes serialize wrote
Corruptions == {"none", "preamble_ints", "serial_version", "family", "seed_hash"}

Corrupt(bytes, corruption) ==
  IF corruption = "preamble_ints" THEN [bytes EXCEPT ![1] = @ + 1]
  ELSE IF corruption = "serial_version" THEN [bytes EXCEPT ![2] = "OTHER_VERSION"]
  ELSE IF corruption = "family" THEN [bytes EXCEPT ![3] = "OTHER_FAMILY"]
  ELSE IF corruption = "seed_hash" THEN [bytes EXCEPT ![7] = compute_seed_hash(OTHER_SEED)]
  ELSE bytes

Constructed_ok(s) == s.err # "invalid_argument"

\* no operation of these specifications moves the window: the build is any
InitApi ==
  /\ build = "mod32"
  /\ stream = "lean"
  /\ \E lg_k \in 0..MaxLgKArg :
        /\ sketch = new(lg_k, DEFAULT_SEED)
        /\ ret = [op |-> "new", lg_k |-> lg_k, err |-> sketch.err]
  /\ sketch2 = sketch
  /\ held = {}
  /\ fed = {}
  /\ pos = 0
  /\ origin = Constructed

ApiUpdateString ==
  /\ Constructed_ok(sketch)
  /\ \E value \in Values :
        /\ sketch' = update_string(sketch, value)
        /\ ret' = [op |-> "update_string", size |-> Len(value)]
  /\ UNCHANGED <<sketch2, held, fed, pos, build, stream, origin>>

ApiUpdateBytes ==
  /\ Constructed_ok(sketch)
  /\ \E value \in Values : \E size \in {0, Len(value)} :
        /\ sketch' = update_bytes(sketch, value, size)
        /\ ret' = [op |-> "update_bytes", size |-> size]
  /\ UNCHANGED <<sketch2, held, fed, pos, build, stream, origin>>

ApiGetEstimate ==
  /\ Constructed_ok(sketch)
  /\ ret' = [op |-> "get_estimate", value |-> get_estimate(sketch)]
  /\ UNCHANGED <<sketch, sketch2, held, fed, pos, build, stream, origin>>

ApiGetLowerBound ==
  /\ Constructed_ok(sketch)
  /\ \E kappa \in 0..MaxKappa :
        ret' = [op |-> "get_lower_bound", kappa |-> kappa,
                result |-> get_lower_bound(sketch, kappa)]
  /\ UNCHANGED <<sketch, sketch2, held, fed, pos, build, stream, origin>>

ApiGetUpperBound ==
  /\ Constructed_ok(sketch)
  /\ \E kappa \in 0..MaxKappa :
        ret' = [op |-> "get_upper_bound", kappa |-> kappa,
                result |-> get_upper_bound(sketch, kappa)]
  /\ UNCHANGED <<sketch, sketch2, held, fed, pos, build, stream, origin>>

\* deserialize(is, seed) of the bytes that serialize writes for this sketch or
\* for a merged sketch with the same coupons
ApiRead ==
  /\ Constructed_ok(sketch)
  /\ \E merged \in BOOLEAN :
        LET bytes == serialize([sketch EXCEPT !.was_merged = merged])
            r == deserialize(bytes, sketch.seed)
        IN /\ r.err = "none"
           /\ ret' = [op |-> "deserialize", corruption |-> "none", variant |-> "stream",
                      extra |-> 0, err |-> r.err, has_sketch |-> "sketch" \in DOMAIN r]
           /\ sketch' = r.sketch
           /\ origin' = Deserialized(HAS_HIP \in bytes[6])
  /\ UNCHANGED <<sketch2, held, fed, pos, build, stream>>

\* serialize(header_size_bytes)
ApiSerialize ==
  /\ Constructed_ok(sketch)
  /\ \E header_size_bytes \in 0..MaxHeader :
        ret' = [op |-> "serialize", header_size_bytes |-> header_size_bytes,
                result |-> serialize_to_bytes(sketch, header_size_bytes)]
  /\ UNCHANGED <<sketch, sketch2, held, fed, pos, build, stream, origin>>

NextApi ==
  \/ ApiUpdateString
  \/ ApiUpdateBytes
  \/ ApiGetEstimate
  \/ ApiGetLowerBound
  \/ ApiGetUpperBound
  \/ ApiRead
  \/ ApiSerialize

SpecApi == InitApi /\ [][NextApi]_vars

SerialUpdate ==
  /\ Constructed_ok(sketch)
  /\ \E value \in Values :
        /\ sketch' = update_bytes(sketch, value, Len(value))
        /\ ret' = NoCall
  /\ UNCHANGED <<sketch2, held, fed, pos, build, stream, origin>>

\* deserialize of the bytes that serialize writes for this sketch, or for a
\* merged sketch with the same coupons, possibly corrupted, from a stream or
\* from a byte array whose size is given right or too large by extra
SerialDeserialize ==
  /\ Constructed_ok(sketch)
  /\ \E merged \in BOOLEAN, corruption \in Corruptions, extra \in {0, 1},
        variant \in {"stream", "bytes"} :
        LET written == serialize_to_bytes([sketch EXCEPT !.was_merged = merged], 0)
            bytes == Corrupt(written.bytes, corruption)
            r == IF variant = "bytes"
                 THEN deserialize_from_bytes(bytes, written.size + extra, sketch.seed)
                 ELSE deserialize(bytes, sketch.seed)
        IN /\ written.err = "none"
           /\ variant = "stream" => extra = 0
           /\ ret' = [op |-> "deserialize", corruption |-> corruption, variant |-> variant,
                      extra |-> extra, err |-> r.err, has_sketch |-> "sketch" \in DOMAIN r]
           /\ sketch' = IF r.err = "none" THEN r.sketch ELSE sketch
           /\ origin' = IF r.err = "none" THEN Deserialized(HAS_HIP \in bytes[6]) ELSE origin
  /\ UNCHANGED <<sketch2, held, fed, pos, build, stream>>

NextSerial == SerialUpdate \/ ApiSerialize \/ SerialDeserialize

InitSerial ==
  /\ build = "mod32"
  /\ stream = "lean"
  /\ \E lg_k \in LgKs : sketch = new(lg_k, DEFAULT_SEED)
  /\ sketch2 = sketch
  /\ held = {}
  /\ fed = {}
  /\ pos = 0
  /\ ret = NoCall
  /\ origin = Constructed

SpecSerial == InitSerial /\ [][NextSerial]_vars

InitPreambleInts ==
  /\ build \in Builds
  /\ stream = "lean"
  /\ sketch = new(CPC_MIN_LG_K, DEFAULT_SEED)
  /\ sketch2 = sketch
  /\ held = {}
  /\ fed = {}
  /\ pos = 0
  /\ ret = NoCall
  /\ origin = Constructed

GetPreambleInts ==
  /\ \E num_coupons \in 0..MaxCouponsArg, has_hip \in BOOLEAN, has_table \in BOOLEAN,
        has_window \in BOOLEAN :
        ret' = [op |-> "get_preamble_ints", num_coupons |-> num_coupons,
                has_hip |-> has_hip, has_table |-> has_table, has_window |-> has_window,
                value |-> get_preamble_ints(num_coupons, has_hip, has_table, has_window)]
  /\ UNCHANGED <<sketch, sketch2, held, fed, pos, build, stream, origin>>

NextPreambleInts == GetPreambleInts

SpecPreambleInts == InitPreambleInts /\ [][NextPreambleInts]_vars

(***************************************************************************)
(* SpecBitPacking: the four test cases of bit_packing_test.cpp, each on an *)
(* input of 8 values below 2^bits.                                         *)
(***************************************************************************)
\* the values of the inputs of a width: 0, 2^bits - 1, the lowest bit, every
\* other bit, the highest bit, every other bit from the second on
ValuePatterns(bits) ==
  <<{}, 0..(bits - 1), {0}, {b \in 0..(bits - 1) : b % 2 = 0}, {bits - 1},
    {b \in 0..(bits - 1) : b % 2 = 1}>>

Patterns(bits) == {ValuePatterns(bits)[p] : p \in 1..MaxPatterns}

\* the places of an input that hold the one value, the others hold the other:
\* none, one place, or every other place
Variations == {{}} \cup {{j} : j \in 1..BLOCK} \cup {{j \in 1..BLOCK : j % 2 = 1}}

TestInputs(bits) ==
  {[i \in 1..BLOCK |-> IF i \in V THEN a ELSE b] :
     V \in Variations, a \in Patterns(bits), b \in Patterns(bits)}

InitBitPacking ==
  /\ build = "mod32"
  /\ stream = "lean"
  /\ sketch = new(CPC_MIN_LG_K, DEFAULT_SEED)
  /\ sketch2 = sketch
  /\ held = {}
  /\ fed = {}
  /\ pos = 0
  /\ \E bits \in MIN_BITS..MAX_BITS : \E input \in TestInputs(bits) :
        ret = [op |-> "input", bits |-> bits, input |-> input]
  /\ origin = Constructed

\* TEST_CASE("pack unpack bits")
PackUnpackBits ==
  /\ ret.op = "input"
  /\ LET packed == pack_each(ret.input, ret.bits, 1, ZeroBytes(BLOCK * 8), 0)
         output == unpack_each(ZeroOutput, ret.bits, 1,
                               [bytes |-> packed.mem.bytes, ptr |-> 1], 0)
     IN ret' = [op |-> "pack unpack bits", bits |-> ret.bits, input |-> ret.input,
                bytes |-> packed.mem.bytes, output |-> output]
  /\ UNCHANGED <<sketch, sketch2, held, fed, pos, build, stream, origin>>

\* TEST_CASE("pack unpack blocks")
PackUnpackBlocks ==
  /\ ret.op = "input"
  /\ LET bytes == pack_bits_block8(ret.input, ret.bits)
     IN ret' = [op |-> "pack unpack blocks", bits |-> ret.bits, input |-> ret.input,
                bytes |-> bytes, output |-> unpack_bits_block8(bytes, ret.bits)]
  /\ UNCHANGED <<sketch, sketch2, held, fed, pos, build, stream, origin>>

\* TEST_CASE("pack bits unpack blocks")
PackBitsUnpackBlocks ==
  /\ ret.op = "input"
  /\ LET packed == pack_each(ret.input, ret.bits, 1, ZeroBytes(ret.bits), 0)
     IN ret' = [op |-> "pack bits unpack blocks", bits |-> ret.bits, input |-> ret.input,
                bytes |-> packed.mem.bytes,
                output |-> unpack_bits_block8(packed.mem.bytes, ret.bits)]
  /\ UNCHANGED <<sketch, sketch2, held, fed, pos, build, stream, origin>>

\* TEST_CASE("pack blocks unpack bits")
PackBlocksUnpackBits ==
  /\ ret.op = "input"
  /\ LET bytes == pack_bits_block8(ret.input, ret.bits)
     IN ret' = [op |-> "pack blocks unpack bits", bits |-> ret.bits, input |-> ret.input,
                bytes |-> bytes,
                output |-> unpack_each(ZeroOutput, ret.bits, 1, [bytes |-> bytes, ptr |-> 1], 0)]
  /\ UNCHANGED <<sketch, sketch2, held, fed, pos, build, stream, origin>>

NextBitPacking ==
  \/ PackUnpackBits
  \/ PackUnpackBlocks
  \/ PackBitsUnpackBlocks
  \/ PackBlocksUnpackBits

SpecBitPacking == InitBitPacking /\ [][NextBitPacking]_vars

(***************************************************************************)
(* SpecRowCol: row_col_from_two_hashes applied to pairs of hashes          *)
(***************************************************************************)
InitRowCol ==
  /\ build = "mod32"
  /\ stream = "lean"
  /\ sketch = new(CPC_MIN_LG_K, DEFAULT_SEED)
  /\ sketch2 = sketch
  /\ held = {}
  /\ fed = {}
  /\ pos = 0
  /\ \E lg_k \in CPC_MIN_LG_K..CPC_MAX_LG_K :
       \E hash0 \in {{}, {3}, 0..3, {25}, (0..25) \ {0}, 0..25, {26, 40}, 0..63} :
         \E hash1 \in {{}, {0}, {1, 0}, {5}, {31}, {32, 7}, {62, 1}, {63}, 0..63} :
            ret = [op |-> "input", hash0 |-> hash0, hash1 |-> hash1, lg_k |-> lg_k]
  /\ origin = Constructed

RowColFromTwoHashes ==
  /\ ret.op = "input"
  /\ ret' = [op |-> "row_col_from_two_hashes", hash0 |-> ret.hash0,
             hash1 |-> ret.hash1, lg_k |-> ret.lg_k,
             result |-> row_col_from_two_hashes(ret.hash0, ret.hash1, ret.lg_k)]
  /\ UNCHANGED <<sketch, sketch2, held, fed, pos, build, stream, origin>>

NextRowCol == RowColFromTwoHashes

SpecRowCol == InitRowCol /\ [][NextRowCol]_vars

(***************************************************************************)
(* SpecLgK: deserialize of images whose lg_k byte is any value             *)
(***************************************************************************)
\* deserialize of the bytes that serialize writes for this sketch, with the
\* lg_k byte replaced by a value up to 26 (below 4 it is out of range); the
\* image has no window, whose length depends on lg_k, and was written by a
\* sketch from the constructor
DeserializeLgK ==
  /\ Constructed_ok(sketch)
  /\ origin = Constructed
  /\ window_size(sketch) = 0
  /\ \E lg_k \in 0..CPC_MAX_LG_K, variant \in {"stream", "bytes"} :
        LET written == serialize_to_bytes(sketch, 0)
            bytes == [written.bytes EXCEPT ![4] = lg_k]
            r == IF variant = "bytes"
                 THEN deserialize_from_bytes(bytes, written.size, sketch.seed)
                 ELSE deserialize(bytes, sketch.seed)
        IN /\ written.err = "none"
           /\ ret' = [op |-> "deserialize", lg_k |-> lg_k, variant |-> variant,
                      err |-> r.err, has_sketch |-> "sketch" \in DOMAIN r]
           /\ sketch' = IF r.err = "none" THEN r.sketch ELSE sketch
           /\ origin' = IF r.err = "none" THEN Deserialized(HAS_HIP \in bytes[6]) ELSE origin
  /\ UNCHANGED <<sketch2, held, fed, pos, build, stream>>

NextLgK == SerialUpdate \/ DeserializeLgK

SpecLgK == InitSerial /\ [][NextLgK]_vars

(***************************************************************************)
(* SpecWords: the bit operations of build_bit_matrix and move_window on    *)
(* one row, for every offset and column                                    *)
(***************************************************************************)
InitWords ==
  /\ build \in Builds
  /\ stream = "lean"
  /\ sketch = new(CPC_MIN_LG_K, DEFAULT_SEED)
  /\ sketch2 = sketch
  /\ held = {}
  /\ fed = {}
  /\ pos = 0
  /\ \E offset \in 0..56, col \in 0..63 :
        ret = [op |-> "input", offset |-> offset, col |-> col]
  /\ origin = Constructed

\* build_bit_matrix: the default row for window_offset = offset, and a row 0
\* after the table code of column col has been flipped in
BuildBitMatrixWords ==
  /\ ret.op = "input"
  /\ ret' = [op |-> "build_bit_matrix", window_offset |-> ret.offset, col |-> ret.col,
             default_row |-> one_shl_minus_one(ret.offset),
             flipped |-> flip_codes({}, {RowCol(0, ret.col)})]
  /\ UNCHANGED <<sketch, sketch2, held, fed, pos, build, stream, origin>>

\* move_window: the masks for new_offset = offset, and the inner loop of row 0
\* on a pattern whose lowest 1 is in column col
MoveWindowWords ==
  /\ ret.op = "input"
  /\ ret.offset >= 1
  /\ \E pattern \in {{ret.col}, {ret.col, 63}, ret.col..63} :
        ret' = [op |-> "move_window", new_offset |-> ret.offset, col |-> ret.col,
                pattern |-> pattern,
                mask_for_clearing_window |-> mask_for_clearing_window(ret.offset),
                mask_for_flipping_early_zone |-> mask_for_flipping_early_zone(ret.offset),
                erased |-> XOR(pattern, one_shl(count_trailing_zeros_in_u64(pattern))),
                loop |-> insert_surprises(0, pattern, {})]
  /\ UNCHANGED <<sketch, sketch2, held, fed, pos, build, stream, origin>>

NextWords == BuildBitMatrixWords \/ MoveWindowWords

SpecWords == InitWords /\ [][NextWords]_vars

(***************************************************************************)
(* Claims.  An operation that raises leaves the sketch as it was at the     *)
(* throw, with err naming the exception; such a state is a state of the    *)
(* program like any other.                                                 *)
(***************************************************************************)
\* C1: after any sequence of updates validate() returns true: the popcount of
\* the matrix that build_bit_matrix rebuilds equals num_coupons.
C1_ValidateHolds == validate(sketch)

\* C2: num_coupons equals the number of distinct row_col codes passed to
\* row_col_update.
C2_CouponsAreDistinctCodes == sketch.num_coupons = Cardinality(Seen)

\* C3: 0 <= window_offset <= 56 and window_offset equals
\* determine_correct_offset(lg_k, num_coupons).
C3_OffsetIsCorrect ==
  /\ sketch.window_offset \in 0..56
  /\ sketch.window_offset = determine_correct_offset(sketch.lg_k, sketch.num_coupons)

\* C4: first_interesting_column <= window_offset.
C4_FirstInterestingColumnBelowOffset ==
  sketch.first_interesting_column <= sketch.window_offset

\* a shift has clipped first_interesting_column to the new offset
C4_Witness ==
  /\ sketch.err = "none"
  /\ sketch.window_offset = 2
  /\ sketch.first_interesting_column = 2

C6_WindowSizeByFlavor ==
  window_size(sketch) =
    IF determine_flavor(sketch.lg_k, sketch.num_coupons) \in {"EMPTY", "SPARSE"}
    THEN 0 ELSE K(sketch.lg_k)

\* lg_k = 4 promoted by the update that brings num_coupons to 2 (32C > 3K)
C6_Witness ==
  /\ sketch.err = "none"
  /\ sketch.lg_k = 4
  /\ sketch.num_coupons = 2
  /\ window_size(sketch) = 16

\* C7: every step leaves num_coupons unchanged or increases it by exactly 1.
C7_CouponsNeverDecrease ==
  [][sketch'.num_coupons \in {sketch.num_coupons, sketch.num_coupons + 1}]_vars

\* coupons collected across a promotion and a window shift
C7_Witness ==
  /\ sketch.err = "none"
  /\ sketch.window_offset >= 1
  /\ sketch.num_coupons > 54

\* C8: the sketch fed a sequence of codes and the sketch fed the sequence with
\* later repetitions removed have the same num_coupons, table, window bytes and
\* window_offset.
C8_DuplicateInsensitive ==
  /\ sketch.num_coupons = sketch2.num_coupons
  /\ sketch.surprising_value_table = sketch2.surprising_value_table
  /\ sketch.sliding_window = sketch2.sliding_window
  /\ sketch.window_offset = sketch2.window_offset

\* C9: two sketches fed the same multiset of codes in two orders have the same
\* num_coupons, table and window bytes.
C9_OrderIndependent ==
  held = {} =>
    /\ sketch.num_coupons = sketch2.num_coupons
    /\ sketch.surprising_value_table = sketch2.surprising_value_table
    /\ sketch.sliding_window = sketch2.sliding_window

\* C10: deserialize(serialize(s), seed) yields a sketch equal to s in
\* num_coupons, table, window bytes, kxp, hip_est_accum,
\* first_interesting_column, window_offset and was_merged.
C10_RoundTrip ==
  LET d == deserialize(serialize(sketch), sketch.seed)
  IN /\ d.err = "none"
     /\ d.sketch.num_coupons = sketch.num_coupons
     /\ d.sketch.surprising_value_table = sketch.surprising_value_table
     /\ d.sketch.sliding_window = sketch.sliding_window
     /\ d.sketch.kxp = sketch.kxp
     /\ d.sketch.hip_est_accum = sketch.hip_est_accum
     /\ d.sketch.first_interesting_column = sketch.first_interesting_column
     /\ d.sketch.window_offset = sketch.window_offset
     /\ d.sketch.was_merged = sketch.was_merged

\* C11: deserialize fails and returns no sketch whenever the preamble_ints
\* byte, the serial version, the family or the stored seed hash differs from
\* the expected value; no sketch object is constructed.
C11_DeserializeRejectsMismatch ==
  (ret.op = "deserialize" /\ ret.corruption # "none") =>
    (ret.err # "none" /\ ~ret.has_sketch)

\* bytes of a sketch with coupons, with a wrong family, were rejected
C11_Witness ==
  /\ ret.op = "deserialize"
  /\ ret.corruption = "family"
  /\ ret.err # "none"
  /\ sketch.num_coupons >= 2

\* C12 as stated: a failure of deserialize is never signalled as InvalidArgument
\* (std::invalid_argument, what the constructor raises), and a size mismatch
\* is not signalled as Internal (std::logic_error, what the mutation paths
\* raise): the failures have a kind of their own, Corruption.
C12_FailuresAreCorruption ==
  (ret.op = "deserialize" /\ ret.err # "none") =>
    /\ exception_type(ret.err) # "std::invalid_argument"
    /\ ret.extra # 0 => exception_type(ret.err) # "std::logic_error"

\* C12 amended: deserialize(bytes, size, seed) signals a size mismatch as
\* std::logic_error, before the other checks; a mismatch of preamble_ints,
\* serial version, family or seed hash is signalled as std::invalid_argument.
C12_FailuresByExceptionType ==
  ret.op = "deserialize" =>
    /\ ret.extra # 0 => exception_type(ret.err) = "std::logic_error"
    /\ (ret.extra = 0 /\ ret.corruption # "none") =>
          exception_type(ret.err) = "std::invalid_argument"
    /\ (ret.extra = 0 /\ ret.corruption = "none") => ret.err = "none"

\* a byte array with a wrong seed hash and a wrong size was rejected for its size
C12_Witness ==
  /\ ret.op = "deserialize"
  /\ ret.extra = 1
  /\ ret.corruption = "seed_hash"
  /\ ret.err = "deserialized size mismatch"

\* C13: new(lg_k, seed) signals InvalidArgument exactly when lg_k < 4 or
\* lg_k > 26; for lg_k in 4..26 the sketch has num_coupons = 0, no window,
\* window_offset = 0, first_interesting_column = 0, kxp = 2^lg_k,
\* hip_est_accum = 0 and was_merged = false.
C13_ConstructorRange ==
  ret.op = "new" =>
    /\ (ret.err = "invalid_argument") <=> (ret.lg_k < 4 \/ ret.lg_k > 26)
    /\ ret.err \in {"none", "invalid_argument"}
    /\ ret.lg_k \in 4..26 =>
         /\ sketch.lg_k = ret.lg_k
         /\ sketch.num_coupons = 0
         /\ window_size(sketch) = 0
         /\ sketch.window_offset = 0
         /\ sketch.first_interesting_column = 0
         /\ sketch.kxp = [whole |-> 2 ^ ret.lg_k, frac |-> [e \in 1..64 |-> 0]]
         /\ sketch.hip_est_accum = HipZero
         /\ sketch.was_merged = FALSE

\* the largest lg_k was accepted
C13_Witness ==
  /\ ret.op = "new"
  /\ ret.lg_k = 26
  /\ ret.err = "none"
  /\ sketch.kxp.whole = 67108864

\* C14: get_lower_bound(kappa) and get_upper_bound(kappa) signal
\* InvalidArgument exactly when kappa is not 1, 2 or 3, and a call of either
\* leaves the sketch unchanged.
C14_KappaRange ==
  [][ret'.op \in {"get_lower_bound", "get_upper_bound"} =>
       /\ (ret'.result.err = "invalid_argument") <=> (ret'.kappa \notin {1, 2, 3})
       /\ ret'.result.err \in {"none", "invalid_argument"}
       /\ sketch' = sketch]_vars

\* kappa = 0 was rejected on a sketch with coupons
C14_Witness ==
  /\ ret.op = "get_lower_bound"
  /\ ret.kappa = 0
  /\ ret.result.err = "invalid_argument"
  /\ sketch.num_coupons >= 1

\* C15: get_estimate returns the HIP accumulator when was_merged is false and
\* the ICON estimate of (lg_k, num_coupons) when it is true; the bounds choose
\* between the HIP and the ICON bound by the same condition; a sketch made by
\* new and changed by updates has was_merged = false, a deserialized sketch
\* has was_merged = true exactly when the HAS_HIP flag was clear.
C15_EstimatorByWasMerged ==
  /\ origin.kind = "new" => sketch.was_merged = FALSE
  /\ origin.kind = "deserialized" => (sketch.was_merged <=> ~origin.has_hip)
  /\ ret.op = "get_estimate" =>
       ret.value = IF sketch.was_merged
                   THEN <<"compute_icon_estimate", sketch.lg_k, sketch.num_coupons>>
                   ELSE <<"hip", sketch.hip_est_accum>>
  /\ (ret.op = "get_lower_bound" /\ ret.result.err = "none") =>
       ret.result.value[1] = IF sketch.was_merged THEN "get_icon_confidence_lb"
                             ELSE "get_hip_confidence_lb"
  /\ (ret.op = "get_upper_bound" /\ ret.result.err = "none") =>
       ret.result.value[1] = IF sketch.was_merged THEN "get_icon_confidence_ub"
                             ELSE "get_hip_confidence_ub"

\* the estimate of a sketch deserialized without HIP and then updated
C15_Witness ==
  /\ ret.op = "get_estimate"
  /\ origin.kind = "deserialized"
  /\ sketch.was_merged
  /\ sketch.num_coupons >= 2
  /\ ret.value[1] = "compute_icon_estimate"

\* C16: update with an empty byte buffer, by the string overload with an empty
\* string or by update(ptr, size) with size = 0, changes no field of the
\* sketch.
C16_EmptyUpdateIsNoOp ==
  [][(ret'.op \in {"update_string", "update_bytes"} /\ ret'.size = 0) =>
       sketch' = sketch]_vars

\* C17: the preamble_ints byte that serialize writes equals the number of
\* 32-bit words it writes before the compressor payload (two words of header,
\* one for each 32-bit field, two for each double), the output has
\* header_size_bytes + 4 * (preamble_ints + table_data_words +
\* window_data_words) bytes, and "serialized size mismatch" is not raised.
C17_PreambleIntsCountsWords ==
  ret.op = "serialize" =>
    /\ ret.result.err = "none"
    /\ LET bytes == ret.result.bytes
           payload == Cardinality(sketch.surprising_value_table) + window_size(sketch)
           doubles == IF sketch.num_coupons > 0 /\ HAS_HIP \in bytes[6] THEN 2 ELSE 0
           u32s == Len(bytes) - 7 - payload - doubles
       IN /\ bytes[1] = 2 + u32s + 2 * doubles
          /\ ret.result.size = ret.header_size_bytes + 4 * (bytes[1] + payload)

\* a sketch with HIP, a table and a window serialized after a header space
C17_Witness ==
  /\ ret.op = "serialize"
  /\ ret.header_size_bytes = 1
  /\ ret.result.err = "none"
  /\ ~sketch.was_merged
  /\ sketch.surprising_value_table # {}
  /\ window_size(sketch) > 0

\* C18: for every lg_k in 4..26 a sketch made by new and never updated has
\* num_coupons = 0, is_empty() = true and a HIP estimate of 0, and serializes
\* to exactly 8 bytes, with preamble_ints = 2 and the HAS_HIP flag set.
C18_EmptySketch ==
  (origin.kind = "new" /\ Constructed_ok(sketch) /\ sketch.num_coupons = 0) =>
    /\ sketch.lg_k \in 4..26
    /\ is_empty(sketch)
    /\ get_estimate(sketch) = <<"hip", HipZero>>
    /\ ret.op = "serialize" =>
         /\ ret.result.err = "none"
         /\ ret.result.size = ret.header_size_bytes + 8
         /\ Len(ret.result.bytes) = 7
         /\ ret.result.bytes[1] = 2
         /\ HAS_HIP \in ret.result.bytes[6]

\* the new sketch of the largest lg_k serialized
C18_Witness ==
  /\ origin.kind = "new"
  /\ sketch.lg_k = 26
  /\ sketch.num_coupons = 0
  /\ ret.op = "serialize"
  /\ ret.header_size_bytes = 0
  /\ ret.result.size = 8

\* C19 as stated: the preamble_ints value that serialize writes, to a stream or
\* to bytes, is always one of 2, 3, 4, 5, 7 or 8.
C19_PreambleIntsValues ==
  ret.op = "serialize" =>
    /\ serialize(sketch)[1] \in {2, 3, 4, 5, 7, 8}
    /\ ret.result.err = "none" => ret.result.bytes[1] \in {2, 3, 4, 5, 7, 8}

\* C19 amended: the preamble_ints value that serialize writes, to a stream or
\* to bytes, is always one of 2, 4, 6, 8 or 10.
C19_PreambleIntsEvenValues ==
  ret.op = "serialize" =>
    /\ serialize(sketch)[1] \in {2, 4, 6, 8, 10}
    /\ ret.result.err = "none" => ret.result.bytes[1] \in {2, 4, 6, 8, 10}

\* a sketch with HIP, a table and a window was serialized with preamble_ints 10
C19_Witness ==
  /\ ret.op = "serialize"
  /\ ret.result.err = "none"
  /\ ret.result.bytes[1] = 10
  /\ serialize(sketch)[1] = 10

\* C20 as stated: get_preamble_ints equals, for every combination of C > 0,
\* HAS_HIP, HAS_TABLE and HAS_WINDOW, 2, plus 1 if C > 0, plus 4 if HAS_HIP,
\* plus 1 if HAS_TABLE, plus 1 more if HAS_TABLE and HAS_WINDOW, plus 1 if
\* HAS_WINDOW.
C20_PreambleIntsAdditive ==
  ret.op = "get_preamble_ints" =>
    ret.value = 2 + (IF ret.num_coupons > 0 THEN 1 ELSE 0)
                  + (IF ret.has_hip THEN 4 ELSE 0)
                  + (IF ret.has_table THEN 1 ELSE 0)
                  + (IF ret.has_table /\ ret.has_window THEN 1 ELSE 0)
                  + (IF ret.has_window THEN 1 ELSE 0)

\* C20 amended: get_preamble_ints equals 2 when C = 0, whatever the flags, and
\* when C > 0 it equals 3, plus 4 if HAS_HIP, plus 1 if HAS_TABLE, plus 1 more
\* if HAS_TABLE and HAS_WINDOW, plus 1 if HAS_WINDOW.
C20_PreambleIntsNested ==
  ret.op = "get_preamble_ints" =>
    ret.value = IF ret.num_coupons = 0 THEN 2
                ELSE 3 + (IF ret.has_hip THEN 4 ELSE 0)
                       + (IF ret.has_table THEN 1 ELSE 0)
                       + (IF ret.has_table /\ ret.has_window THEN 1 ELSE 0)
                       + (IF ret.has_window THEN 1 ELSE 0)

\* get_preamble_ints was called with no coupons and HAS_HIP, as serialize calls
\* it for an empty sketch, and returned 2
C20_Witness ==
  /\ ret.op = "get_preamble_ints"
  /\ ret.num_coupons = 0
  /\ ret.has_hip
  /\ ~ret.has_table
  /\ ~ret.has_window
  /\ ret.value = 2

\* C21: for a non-empty sketch serialize writes the pair (kxp, hip_est_accum)
\* exactly once when HAS_HIP is set and never otherwise: right after
\* table_num_entries and before table_data_words when HAS_TABLE and HAS_WINDOW
\* are both set, after the table_data_words / window_data_words fields and
\* before the payloads otherwise; the two deserialize overloads read the
\* fields in the order in which the two serialize overloads write them, and
\* find the pair that was written.
C21_HipWrittenOnceInPlace ==
  LET bytes == serialize(sketch)
      fields == serialize_fields(sketch)
      has_hip == HAS_HIP \in bytes[6]
      both == HAS_TABLE \in bytes[6] /\ HAS_WINDOW \in bytes[6]
      at == Places(fields, "kxp")
      lengths == Places(fields, "table_data_words") \cup Places(fields, "window_data_words")
      payloads == Places(fields, "window_data") \cup Places(fields, "table_data")
      written == serialize_to_bytes(sketch, 0)
      from_stream == deserialize(bytes, sketch.seed)
      from_bytes == deserialize_from_bytes(written.bytes, written.size, sketch.seed)
  IN ~is_empty(sketch) =>
       /\ serialize_to_bytes_fields(sketch) = fields
       /\ deserialize_fields(bytes[6]) = fields
       /\ deserialize_from_bytes_fields(bytes[6]) = fields
       /\ Cardinality(at) = IF has_hip THEN 1 ELSE 0
       /\ Places(fields, "hip_est_accum") = {i + 1 : i \in at}
       /\ \A i \in at :
             /\ both => (fields[i - 1] = "table_num_entries" /\ fields[i + 2] = "table_data_words")
             /\ ~both => /\ i - 1 \in lengths
                         /\ i + 2 \in payloads
             /\ ~both => (\A j \in lengths : j < i) /\ (\A j \in payloads : j > i)
             /\ bytes[i] = sketch.kxp
             /\ bytes[i + 1] = sketch.hip_est_accum
       /\ Len(bytes) = Len(fields) - Cardinality(payloads)
                         + Cardinality(sketch.surprising_value_table) + window_size(sketch)
       /\ from_stream.err = "none"
       /\ from_bytes.err = "none"
       /\ has_hip => /\ from_stream.sketch.kxp = sketch.kxp
                     /\ from_stream.sketch.hip_est_accum = sketch.hip_est_accum
                     /\ from_bytes.sketch.kxp = sketch.kxp
                     /\ from_bytes.sketch.hip_est_accum = sketch.hip_est_accum

\* a sketch with HIP, a table and a window was read back from the bytes of
\* serialize, the pair at the first of its two places
C21_Witness ==
  /\ ret.op = "deserialize"
  /\ ret.variant = "bytes"
  /\ ret.err = "none"
  /\ origin.kind = "deserialized"
  /\ origin.has_hip
  /\ sketch.surprising_value_table # {}
  /\ window_size(sketch) > 0
  /\ serialize_fields(sketch)[10] = "kxp"

\* C22: the bit-matrix scratch buffer allocated in move_window,
\* build_bit_matrix and validate is released on every exit path: when an
\* operation on the sketch has ended, normally or by raising, no bit-matrix
\* allocation remains outstanding.
C22_BitMatrixReleased == sketch.bit_matrices = 0

C24_ShortCircuitChangesNothing ==
  (ret.op = "row_col_update" /\ col_of(ret.row_col) < sketch2.first_interesting_column) =>
    sketch = sketch2

\* a code of column 0 passed again after first_interesting_column has risen
\* above 0
C24_Witness ==
  /\ ret.op = "row_col_update"
  /\ col_of(ret.row_col) = 0
  /\ sketch2.first_interesting_column >= 1
  /\ sketch2.err = "none"
  /\ sketch = sketch2

\* C25: in every reachable state, for every row in [0, k) and every column
\* below first_interesting_column, the bit of that row and column of the
\* matrix that build_bit_matrix rebuilds is 1.
C25_BelowFirstInterestingColumnAllSet ==
  LET matrix == build_bit_matrix(sketch)
  IN \A i \in Rows(sketch.lg_k) :
        \A c \in 0..(sketch.first_interesting_column - 1) : c \in matrix[i]

\* C26: the sketch refines a plain set of coupons: after any sequence of
\* row_col_update calls on a fresh sketch, bit col of row row of the matrix
\* returned by build_bit_matrix is 1 if and only if the code (row << 6) | col
\* was passed to row_col_update, for every row in [0, k) and col in [0, 63].
C26_MatrixIsTheSetOfCoupons ==
  LET matrix == build_bit_matrix(sketch)
  IN \A i \in Rows(sketch.lg_k) : \A c \in 0..63 :
        c \in matrix[i] <=> RowCol(i, c) \in Seen

\* the latest call was the sparse update that promoted the sketch
Promoted ==
  /\ ret.op = "row_col_update"
  /\ window_size(sketch2) = 0
  /\ window_size(sketch) > 0

\* C27: promote_sparse_to_windowed preserves the coupon set: afterwards the
\* window has k bytes, bit col of sliding_window[row] is set exactly for the
\* former table codes with col < 8, the new table holds exactly the former
\* table codes with col >= 8, and num_coupons, window_offset (0), kxp and
\* hip_est_accum are those promote_sparse_to_windowed was entered with.
C27_PromotionPreservesCoupons ==
  Promoted =>
    LET entered == update_sparse_collect(sketch2, ret.row_col)
        former == entered.surprising_value_table
    IN /\ window_size(sketch) = K(sketch.lg_k)
       /\ DOMAIN sketch.sliding_window = Rows(sketch.lg_k)
       /\ \A row \in Rows(sketch.lg_k) : \A col \in 0..7 :
             col \in sketch.sliding_window[row] <=> RowCol(row, col) \in former
       /\ \A row \in Rows(sketch.lg_k) : sketch.sliding_window[row] \subseteq 0..7
       /\ sketch.surprising_value_table = {x \in former : col_of(x) >= 8}
       /\ sketch.num_coupons = entered.num_coupons
       /\ sketch.window_offset = 0
       /\ entered.window_offset = 0
       /\ sketch.kxp = entered.kxp
       /\ sketch.hip_est_accum = entered.hip_est_accum

\* a promotion that moved codes to the window and kept codes in the table
C27_Witness ==
  /\ Promoted
  /\ sketch.lg_k = 5
  /\ sketch.surprising_value_table # {}
  /\ \E row \in Rows(sketch.lg_k) : sketch.sliding_window[row] # {}

\* C28: for every lg_k in [4, 26] promote_sparse_to_windowed is invoked once
\* in a sketch's lifetime, on the novel sparse update that first makes
\* 32 * num_coupons >= 3K, and its precondition check (window_offset = 0, and
\* 32C = 3K or lg_k = 4 with 32C > 3K) never fails; for lg_k = 4 it is the
\* update that brings num_coupons to 2.
C28_PromotedOnceAtThreshold ==
  LET k == K(sketch.lg_k)
      c32 == 32 * sketch.num_coupons
  IN /\ window_size(sketch) = 0 => c32 < 3 * k
     /\ window_size(sketch) > 0 => c32 >= 3 * k
     /\ sketch.err \notin {"wrong c32", "window_offset != 0", "c32pre >= 3 * k"}
     /\ ret.op = "row_col_update" =>
          /\ window_size(sketch2) > 0 => window_size(sketch) > 0
          /\ Promoted <=>
               /\ window_size(sketch2) = 0
               /\ sketch.num_coupons = sketch2.num_coupons + 1
               /\ 32 * sketch2.num_coupons < 3 * k
               /\ c32 >= 3 * k
          /\ Promoted =>
               /\ sketch.window_offset = 0
               /\ c32 = 3 * k \/ (sketch.lg_k = 4 /\ c32 > 3 * k)
               /\ sketch.lg_k = 4 => sketch.num_coupons = 2
     /\ \A lg_k \in CPC_MIN_LG_K..CPC_MAX_LG_K :
          LET \* the number of coupons at which 32C first reaches 3K
              c == (3 * K(lg_k) + 31) \div 32
          IN /\ sparse_must_promote(K(lg_k), 32 * c)
             /\ ~sparse_must_promote(K(lg_k), 32 * (c - 1))
             /\ promote_c32_is_right(lg_k, 32 * c)

\* a sketch of lg_k = 4 promoted by the update that collected its second coupon
C28_Witness ==
  /\ Promoted
  /\ sketch.lg_k = 4
  /\ sketch.num_coupons = 2
  /\ 32 * sketch.num_coupons > 3 * K(sketch.lg_k)

\* the latest call was a windowed update that collected a coupon and called
\* move_window
Shifted ==
  /\ ret.op = "row_col_update"
  /\ window_size(sketch2) > 0
  /\ col_of(ret.row_col) >= sketch2.first_interesting_column
  /\ sketch2.window_offset <= 56
  /\ 32 * sketch2.num_coupons >= 3 * K(sketch2.lg_k)
  /\ 8 * sketch2.num_coupons < (27 + 8 * sketch2.window_offset) * K(sketch2.lg_k)
  /\ update_windowed_zone(sketch2, ret.row_col)[3]
  /\ windowed_must_shift(K(sketch2.lg_k), 8 * (sketch2.num_coupons + 1),
                         8 * sketch2.window_offset)

\* C29: move_window increases window_offset by exactly 1 and leaves
\* num_coupons and the reconstructed bit matrix unchanged: the matrix rebuilt
\* from the new window bytes, the new offset and the rebuilt table equals the
\* matrix built before the shift, for every offset from 0 to 55.
C29_MoveWindowKeepsMatrix ==
  Shifted =>
    LET entered == update_windowed_collect(sketch2, ret.row_col)
    IN /\ sketch.window_offset = entered.window_offset + 1
       /\ sketch.num_coupons = entered.num_coupons
       /\ build_bit_matrix(sketch) = build_bit_matrix(entered)

\* the latest call was a windowed update that passed the checks of
\* update_windowed on num_coupons and window_offset
Windowed ==
  /\ ret.op = "row_col_update"
  /\ window_size(sketch2) > 0
  /\ col_of(ret.row_col) >= sketch2.first_interesting_column
  /\ sketch2.window_offset <= 56
  /\ 32 * sketch2.num_coupons >= 3 * K(sketch2.lg_k)
  /\ 8 * sketch2.num_coupons < (27 + 8 * sketch2.window_offset) * K(sketch2.lg_k)

\* C30: in update_windowed a code is handled by one of three zones chosen by
\* its column: col < window_offset deletes the code from the table, novel iff
\* it was present; window_offset <= col < window_offset + 8 sets bit
\* (col - window_offset) of sliding_window[row], novel iff the bit was 0;
\* col >= window_offset + 8 inserts the code into the table, novel iff it was
\* absent. In each case the update is novel iff the matrix bit (row, col) was
\* 0 before, and only that bit changes.
C30_ThreeZonesOneBit ==
  Windowed =>
    LET row_col == ret.row_col
        row == row_of(row_col)
        col == col_of(row_col)
        zone == update_windowed_zone(sketch2, row_col)
        table == sketch2.surprising_value_table
        window == sketch2.sliding_window
        offset == sketch2.window_offset
        before == build_bit_matrix(sketch2)
        after == build_bit_matrix([sketch2 EXCEPT !.surprising_value_table = zone[1],
                                                  !.sliding_window = zone[2],
                                                  !.num_coupons = IF zone[3] THEN @ + 1 ELSE @])
        zones ==
           /\ col < offset =>
               (/\ zone[1] = table \ {row_col}
                /\ zone[2] = window
                /\ zone[3] <=> row_col \in table)
           /\ (offset <= col /\ col < offset + 8) =>
               (/\ zone[1] = table
                /\ zone[2] = [window EXCEPT ![row] = @ \cup {col - offset}]
                /\ zone[3] <=> (col - offset) \notin window[row])
           /\ col >= offset + 8 =>
               (/\ zone[1] = table \cup {row_col}
                /\ zone[2] = window
                /\ zone[3] <=> row_col \notin table)
        nov == zone[3] <=> col \notin before[row]
        only == after = [before EXCEPT ![row] = @ \cup {col}]
    IN zones /\ nov /\ only

\* C31: a window shift happens exactly on the novel windowed update that
\* makes 8 * num_coupons >= (27 + 8 * window_offset) * K, at most one shift
\* happens per update, and before and after every windowed update
\* 8 * num_coupons < (27 + 8 * window_offset) * K holds for the current offset.
C31_ShiftExactlyAtThreshold ==
  (/\ ret.op = "row_col_update"
   /\ window_size(sketch2) > 0
   /\ col_of(ret.row_col) >= sketch2.first_interesting_column) =>
    LET k == K(sketch2.lg_k)
        w8pre == 8 * sketch2.window_offset
        novel == sketch.num_coupons = sketch2.num_coupons + 1
    IN /\ 8 * sketch2.num_coupons < (27 + w8pre) * k
       /\ 8 * sketch.num_coupons < (27 + 8 * sketch.window_offset) * k
       /\ sketch.window_offset \in {sketch2.window_offset, sketch2.window_offset + 1}
       /\ sketch.window_offset = sketch2.window_offset + 1 <=>
            (novel /\ windowed_must_shift(k, 8 * sketch.num_coupons, w8pre))

\* C32: in exact arithmetic kxp starts at k = 2^lg_k, is decreased by exactly
\* 2^-(col + 1) once for each novel coupon and is not changed by a non-novel
\* update, so until a refresh kxp = k minus the sum of 2^-(col + 1) over the
\* collected coupons and is strictly positive; hip_est_accum is increased by
\* k / kxp with the kxp of before that decrement, once per novel coupon.
C32_KxpAndHipPerCoupon ==
  LET \* the carry out of the binary places e..64 of kxp into place e - 1
      RECURSIVE CarryOf(_, _)
      CarryOf(frac, e) ==
        IF e > 64 THEN 0 ELSE (frac[e] + CarryOf(frac, e + 1)) \div 2
      \* whole + SUM_e frac[e] * 2^-e > 0
      StrictlyPositive(x) ==
        LET w == x.whole + CarryOf(x.frac, 1)
        IN \/ w > 0
           \/ w = 0 /\ \E e \in 1..64 : (x.frac[e] + CarryOf(x.frac, e + 1)) % 2 = 1
  IN
  /\ sketch.num_coupons = 0 =>
        sketch.kxp = DoubleOf(K(sketch.lg_k)) /\ sketch.hip_est_accum = HipZero
  /\ sketch.window_offset < 8 =>
        /\ sketch.kxp.whole = K(sketch.lg_k)
        /\ \A e \in 1..64 :
              sketch.kxp.frac[e] = 0 - Cardinality({rc \in Seen : col_of(rc) = e - 1})
        /\ StrictlyPositive(sketch.kxp)
  /\ sketch.hip_est_accum.terms = sketch.num_coupons
  /\ ret.op = "row_col_update" =>
        LET col == col_of(ret.row_col)
            novel == sketch.num_coupons = sketch2.num_coupons + 1
            refreshed == Shifted /\ (sketch2.window_offset + 1) % 8 = 0
        IN /\ sketch.num_coupons \in {sketch2.num_coupons, sketch2.num_coupons + 1}
           /\ novel => sketch.hip_est_accum = HipPlus(sketch2.hip_est_accum, sketch2.kxp)
           /\ (novel /\ ~refreshed) => sketch.kxp = MinusInvPow2(sketch2.kxp, col + 1)
           /\ ~novel => /\ sketch.kxp = sketch2.kxp
                        /\ sketch.hip_est_accum = sketch2.hip_est_accum

C34_RowColFromTwoHashes ==
  ret.op = "row_col_from_two_hashes" =>
    LET clz == count_leading_zeros_in_u64(ret.hash1)
        col == IF clz < 63 THEN clz ELSE 63
        row == NumberOf(ret.hash0 \cap (0..(ret.lg_k - 1)))
        code == ret.result.row_col
        code_row == NumberOf(ShiftRight(code, 6))
        code_col == NumberOf(code \cap (0..5))
    IN /\ ret.result.err = "none"
       /\ code \subseteq 0..31
       /\ code # 0..31
       /\ code_row < K(ret.lg_k)
       /\ code_col \in 0..63
       /\ IF row = K(26) - 1 /\ col = 63
          THEN code = (0..31) \ {6}
          ELSE code_row = row /\ code_col = col

\* the hashes that give the code 0xFFFFFFFF before its replacement
C34_Witness ==
  /\ ret.op = "row_col_from_two_hashes"
  /\ ret.lg_k = 26
  /\ (0..25) \subseteq ret.hash0
  /\ ret.hash1 \subseteq {0}
  /\ ret.result.row_col = (0..31) \ {6}

\* C35: every sketch object that exists, created by new or returned by
\* deserialize, has lg_k in [4, 26], and no operation changes lg_k or seed
\* afterwards; deserialize does not return a sketch when the lg_k byte of the
\* input is outside [4, 26].
C35_LgKInRangeAndFixed ==
  /\ [](/\ Constructed_ok(sketch) =>
             sketch.lg_k \in CPC_MIN_LG_K..CPC_MAX_LG_K
        /\ (ret.op = "deserialize" /\ ret.lg_k \notin CPC_MIN_LG_K..CPC_MAX_LG_K) =>
             ~ret.has_sketch)
  /\ [][ret'.op # "deserialize" =>
          (sketch'.lg_k = sketch.lg_k /\ sketch'.seed = sketch.seed)]_vars

\* C36: no sequence of row_col_update calls with legal codes on a fresh sketch
\* raises an Internal error (std::logic_error) from update_sparse,
\* update_windowed, promote_sparse_to_windowed, move_window or
\* build_bit_matrix.
C36_NoInternalError ==
  sketch.err \notin {"c32pre >= 3 * k", "c32pre < 3 * k", "c8pre is wrong",
                     "wrong window offset", "wrong c32", "window_offset != 0",
                     "is_novel != true", "new_offset > 56", "new_offset is wrong",
                     "no sliding window"}

\* C37: the bit operations on matrix rows act on the full 64-bit word: in
\* build_bit_matrix the default row is 2^window_offset - 1 for every
\* window_offset in [0, 56] and a table code flips exactly bit col for every
\* col in [0, 63]; in move_window the window-clearing mask clears exactly bits
\* [new_offset, new_offset + 8), the early-zone mask is 2^new_offset - 1 and
\* erasing a bit clears exactly bit col, for every new_offset in [1, 56] and
\* col in [0, 63].
C37_FullWidthBitOperations ==
  /\ ret.op = "build_bit_matrix" =>
        /\ ret.default_row = 0..(ret.window_offset - 1)
        /\ ret.flipped = {ret.col}
  /\ ret.op = "move_window" =>
        /\ ret.mask_for_clearing_window = (0..63) \ (ret.new_offset..(ret.new_offset + 7))
        /\ ret.mask_for_flipping_early_zone = 0..(ret.new_offset - 1)
        /\ ret.erased = ret.pattern \ {ret.col}

\* C38: move_window always terminates: each iteration of the inner loop
\* 'while (pattern != 0)' clears exactly the lowest set bit of pattern, so the
\* loop runs popcount(pattern) times and inserts each surprising code of the
\* row into the table once, for patterns with bits at any column in [0, 63].
\* (Every iteration inserts one code or throws: the loop has run
\* popcount(pattern) times when it has not thrown and the table holds
\* popcount(pattern) codes.)
C38_InnerLoopInsertsEachCodeOnce ==
  ret.op = "move_window" =>
    /\ ~ret.loop.thrown
    /\ ret.loop.table = {RowCol(0, c) : c \in ret.pattern}
    /\ Cardinality(ret.loop.table) = Cardinality(ret.pattern)

\* C39: in every state reachable by updates num_coupons > 0 if and only if
\* the surprising table holds a code or the window is allocated; hence
\* serialize, which writes num_coupons when the sketch is not empty, and
\* deserialize, which reads num_coupons only when HAS_TABLE or HAS_WINDOW is
\* set, agree on whether the num_coupons field is present.
C39_NumCouponsFieldAgreed ==
  LET flags_byte == serialize(sketch)[6]
      written == Places(serialize_fields(sketch), "num_coupons") # {}
      copied == Places(serialize_to_bytes_fields(sketch), "num_coupons") # {}
  IN /\ sketch.num_coupons > 0 <=>
          (sketch.surprising_value_table # {} \/ window_size(sketch) > 0)
     /\ written <=> sketch.num_coupons > 0
     /\ written <=> Places(deserialize_fields(flags_byte), "num_coupons") # {}
     /\ copied <=> Places(deserialize_from_bytes_fields(flags_byte), "num_coupons") # {}

\* a sketch with coupons in the window only: its image has HAS_WINDOW and not
\* HAS_TABLE
C39_Witness ==
  /\ sketch.num_coupons > 0
  /\ sketch.surprising_value_table = {}
  /\ window_size(sketch) > 0
  /\ HAS_WINDOW \in serialize(sketch)[6]
  /\ HAS_TABLE \notin serialize(sketch)[6]
  /\ Places(serialize_fields(sketch), "num_coupons") = {8}

====
